---- MODULE Spec2Model ----
(***************************************************************************)
(* The acoustic sub-step scheduler of the dynamical core                   *)
(* (fv3core/stencils/dyn_core.py, class AcousticDynamics), the damping     *)
(* policy get_nk_heat_dissipation and the Horizontal Transport Operator    *)
(* (fv3core/stencils/fvtp2d.py, class FiniteVolumeTransport).              *)
(*                                                                         *)
(* Real-valued configuration parameters are held as integers in units of   *)
(* 1e-5, so that the thresholds of the code (1e-5, 1e-4, 1e-3) are the     *)
(* integers 1, 10 and 100 and the comparisons are the code's.              *)
(***************************************************************************)
EXTENDS Integers, Sequences, FiniteSets, TLC

VARIABLES
    \* ---- AcousticDynamics (one scheduler instance on one rank) ----
    cfg,                  \* the configuration and construction arguments
    phase,                \* "new", "rejected", "ready", "running", "raised"
    created,              \* instance attributes made by __init__, in order
    nk_heat_dissipation,  \* self._nk_heat_dissipation
    do_del2cubed,         \* self._do_del2cubed
    n_map,                \* argument of the call in progress
    ops,                  \* the operations of the call in progress, in order
    pc,                   \* index of the next operation of the call
    inflight,             \* exchange handles started and not yet waited
    halo,                 \* per exchanged field: "stale", "sending", "fresh"
    written,              \* fields written by a stage of the call in progress
    count,                \* how often each stage ran in the call in progress
    err,                  \* the exception that ended construction or a call
    adjusted,             \* levels of pt adjusted by the damping pass of the call
    dp_ref_runs,          \* where dp_ref_compute ran: __init__, or a sub-step
    \* ---- a function or a stencil applied to drawn inputs ----
    pf,
    \* ---- FiniteVolumeTransport (one operator instance) ----
    fvt,
    \* ---- AcousticDynamics, whole calls on equal input states ----
    tmp_heat_source,      \* content of self._temporaries["heat_source"]
    seen,                 \* per n_map, the results of the calls that returned
    \* ---- several ranks, each running the scheduler ----
    mesh                  \* per rank its call position, fields and halos; the
                          \* messages in flight between ranks

vars == <<cfg, phase, created, nk_heat_dissipation, do_del2cubed, n_map, ops,
          pc, inflight, halo, written, count, err, adjusted, dp_ref_runs, pf,
          fvt, tmp_heat_source, seen, mesh>>

schedVars == <<cfg, phase, created, nk_heat_dissipation, do_del2cubed, n_map,
               ops, pc, inflight, halo, written, count, err, adjusted,
               dp_ref_runs>>

(***************************************************************************)
(* Bounds of the model.                                                    *)
(***************************************************************************)
MaxNSplit == 3
MaxKSplit == 2
MaxNpz == 3

(***************************************************************************)
(* Thresholds of the code, in units of 1e-5.                               *)
(***************************************************************************)
VTDM4_MIN == 10
D2_BG_MIN == 100
D_CON_MIN == 1
GRID_TYPE_INTERFACE_MAX == 4

None == "none"

(***************************************************************************)
(* get_nk_heat_dissipation: the number of levels in which dissipated       *)
(* kinetic energy is converted to heat.                                    *)
(***************************************************************************)
get_nk_heat_dissipation_k1_twice(config, npz) ==
    IF config.convert_ke \/ config.vtdm4 > VTDM4_MIN
    THEN npz
    ELSE IF config.d2_bg_k1 < D2_BG_MIN
         THEN 0
         ELSE IF config.d2_bg_k1 < D2_BG_MIN
              THEN 1
              ELSE 2

get_nk_heat_dissipation(config, npz) ==
    IF config.convert_ke \/ config.vtdm4 > VTDM4_MIN
    THEN npz
    ELSE IF config.d2_bg_k1 < D2_BG_MIN
         THEN 0
         ELSE IF config.d2_bg_k2 < D2_BG_MIN
              THEN 1
              ELSE 2

(***************************************************************************)
(* self._do_del2cubed, as __init__ sets it.                                *)
(***************************************************************************)
DoDel2CubedEither(nk, d_con) == nk # 0 \/ d_con > D_CON_MIN

DoDel2Cubed(nk, d_con) == nk # 0 /\ d_con > D_CON_MIN

(***************************************************************************)
(* Configurations.  d_grid_shallow_water holds the damping parameters that *)
(* get_nk_heat_dissipation reads; square says whether the sub-domain has   *)
(* as many cells along x as along y (grid_indexing.domain[0] == domain[1]).*)
(***************************************************************************)
DswConfigs ==
    { [convert_ke |-> FALSE, vtdm4 |-> 0, d2_bg_k1 |-> 0, d2_bg_k2 |-> 0],
      [convert_ke |-> FALSE, vtdm4 |-> 6000, d2_bg_k1 |-> 20000,
       d2_bg_k2 |-> 10000],
      [convert_ke |-> FALSE, vtdm4 |-> 0, d2_bg_k1 |-> 20000,
       d2_bg_k2 |-> 10000] }

Configs ==
    [ d_ext : {0, 1}, beta : {0, 1}, use_logp : BOOLEAN,
      hydrostatic : BOOLEAN, nord : {0, 3}, rf_fast : BOOLEAN,
      grid_type : {0, 4}, n_split : 1..MaxNSplit, k_split : 1..MaxKSplit,
      use_old_omega : BOOLEAN, breed_vortex_inline : BOOLEAN,
      square : BOOLEAN, d_con : {0, 100000},
      d_grid_shallow_water : DswConfigs, npz : {MaxNpz} ]

(***************************************************************************)
(* AcousticDynamics.__init__ as the list of its steps in program order:    *)
(* the three assertions first, then the attributes it creates.             *)
(***************************************************************************)
Check(what, ok) == [k |-> "assert", n |-> what, ok |-> ok]
Create(what) == [k |-> "create", n |-> what, ok |-> TRUE]

CtorChecksAcceptsLogp(c) ==
    << Check("d_ext != 0 is not implemented", c.d_ext = 0),
       Check("beta != 0 is not implemented", c.beta = 0) >>

CtorChecks(c) ==
    << Check("d_ext != 0 is not implemented", c.d_ext = 0),
       Check("beta != 0 is not implemented", c.beta = 0),
       Check("use_logp=True is not implemented", ~c.use_logp) >>

CtorCreates(c) ==
    << Create("_nk_heat_dissipation"),
       Create("nonhydrostatic_pressure_gradient"),
       Create("_temporaries") >>
    \o (IF ~c.hydrostatic
        THEN << Create("_dp_ref"), Create("_zs"),
                Create("update_height_on_d_grid"), Create("riem_solver3"),
                Create("riem_solver_c"),
                Create("_compute_geopotential_stencil") >>
        ELSE << >>)
    \o << Create("dgrid_shallow_water_lagrangian_dynamics"),
          Create("cgrid_shallow_water_lagrangian_dynamics"),
          Create("_set_gz"), Create("_set_pem"), Create("_p_grad_c"),
          Create("update_geopotential_height_on_c_grid"),
          Create("_zero_data"), Create("_edge_pe_stencil"),
          Create("_do_del2cubed") >>
    \o (IF DoDel2Cubed(get_nk_heat_dissipation(c.d_grid_shallow_water, c.npz),
                       c.d_con)
        THEN << Create("_hyperdiffusion") >>
        ELSE << >>)
    \o (IF c.rf_fast THEN << Create("_rayleigh_damping") >> ELSE << >>)
    \o << Create("_compute_pkz_tempadjust"), Create("_pk3_halo"),
          Create("_copy_stencil"), Create("_halo_updaters") >>

CtorStepsChecksLast(c) == CtorCreates(c) \o CtorChecks(c)

CtorSteps(c) == CtorChecks(c) \o CtorCreates(c)

\* The index of the first failing assertion of the steps, 0 when none fails.
FirstFailure(steps) ==
    LET bad == {i \in 1..Len(steps) : steps[i].k = "assert" /\ ~steps[i].ok}
    IN  IF bad = {} THEN 0 ELSE CHOOSE i \in bad : \A j \in bad : i <= j

\* What the steps created before the first failing assertion, or all of it.
CreatedBy(steps) ==
    LET f == FirstFailure(steps)
        last == IF f = 0 THEN Len(steps) ELSE f - 1
    IN  {steps[i].n : i \in {j \in 1..last : steps[j].k = "create"}}

(***************************************************************************)
(* _HaloUpdaters: the fields of each exchange handle.                      *)
(***************************************************************************)
Handles ==
    {"q_con__cappa", "delp__pt", "u__v", "w", "gz", "delp__pt__q_con", "zh",
     "divgd", "heat_source", "pkc", "uc__vc"}

HandleFields(h) ==
    CASE h = "q_con__cappa" -> {"q_con", "cappa"}
      [] h = "delp__pt" -> {"delp", "pt"}
      [] h = "u__v" -> {"u", "v"}
      [] h = "w" -> {"w"}
      [] h = "gz" -> {"gz"}
      [] h = "delp__pt__q_con" -> {"delp", "pt", "q_con"}
      [] h = "zh" -> {"zh"}
      [] h = "divgd" -> {"divgd"}
      [] h = "heat_source" -> {"heat_source"}
      [] h = "pkc" -> {"pkc"}
      [] h = "uc__vc" -> {"uc", "vc"}
      [] h = "interface_uc__vc" -> {"u", "v"}

ExchangedFields == UNION {HandleFields(h) : h \in Handles}

\* Whether handle h is a _WrappedHaloUpdater, whose start() takes no argument.
\* On a sub-domain that is not square pkc is the bare updater of the exchange
\* service, whose start needs the list of fields.
IsWrapped(c, h) == h # "pkc" \/ c.square

(***************************************************************************)
(* AcousticDynamics.__call__ as the list of its operations in program      *)
(* order.  An operation is a halo start or wait, a stage (a stencil or a   *)
(* solver), the interface synchronisation, the attachment of the           *)
(* temporaries to the state, or a raise.  it is the sub-step of the        *)
(* operation (-1 before and after the loop); remap is the remap_step flag  *)
(* of the sub-step.                                                        *)
(***************************************************************************)
Op(kind, name, it, remap) == [k |-> kind, n |-> name, it |-> it, remap |-> remap]

Start(h, it) == Op("start", h, it, FALSE)
Wait(h, it) == Op("wait", h, it, FALSE)
Stage(s, it) == Op("stage", s, it, FALSE)
When(cond, seq) == IF cond THEN seq ELSE << >>

UpdateStartsTwice(h, it) == << Start(h, it), Start(h, it), Wait(h, it) >>

\* update() of the wrapper: start() followed by wait()
Update(h, it) == << Start(h, it), Wait(h, it) >>

EndStep(c, nmap) == nmap = c.k_split

RemapStepLastOnly(c, it) == it = c.n_split - 1

RemapStep(c, it) == c.breed_vortex_inline \/ it = c.n_split - 1

PreLoopOpsLeavesQConInFlight(c) ==
    << Start("q_con__cappa", -1), Start("delp__pt", -1), Start("u__v", -1),
       Op("attach", "_temporaries", -1, FALSE),
       Stage("zero_data", -1) >>

PreLoopOps(c) ==
    << Start("q_con__cappa", -1), Start("delp__pt", -1), Start("u__v", -1),
       Wait("q_con__cappa", -1),
       Op("attach", "_temporaries", -1, FALSE),
       Stage("zero_data", -1) >>

SubStepHeadSeedsEverySubStep(c, it, end_step) ==
    When(~c.hydrostatic,
         << Start("w", it), Stage("set_gz", it), Start("gz", it),
            Wait("gz", it) >>)
    \o When(it = 0, << Wait("delp__pt", it) >>)
    \o When(it = c.n_split - 1 /\ end_step /\ c.use_old_omega,
            << Stage("set_pem", it) >>)
    \o << Wait("u__v", it) >>
    \o When(~c.hydrostatic, << Wait("w", it) >>)

SubStepHeadWithoutWWait(c, it, end_step) ==
    When(~c.hydrostatic,
         << Start("w", it) >>
         \o When(it = 0, << Stage("set_gz", it), Start("gz", it) >>))
    \o When(it = 0, << Wait("delp__pt", it) >>)
    \o When(it = c.n_split - 1 /\ end_step /\ c.use_old_omega,
            << Stage("set_pem", it) >>)
    \o << Wait("u__v", it) >>

\* from the top of the loop body to the C-grid update
SubStepHead(c, it, end_step) ==
    When(~c.hydrostatic,
         << Start("w", it) >>
         \o When(it = 0, << Stage("set_gz", it), Start("gz", it) >>))
    \o When(it = 0, << Wait("delp__pt", it) >>)
    \o When(it = c.n_split - 1 /\ end_step /\ c.use_old_omega,
            << Stage("set_pem", it) >>)
    \o << Wait("u__v", it) >>
    \o When(~c.hydrostatic, << Wait("w", it) >>)

SubStepCGridSolverAfterGradient(c, it) ==
    << Stage("c_sw", it) >>
    \o When(c.nord > 0, << Start("divgd", it) >>)
    \o When(~c.hydrostatic,
            IF it = 0
            THEN << Wait("gz", it), Stage("copy_gz_to_zh", it) >>
            ELSE << Stage("copy_zh_to_gz", it) >>)
    \o << Stage("p_grad_c", it) >>
    \o When(~c.hydrostatic,
            << Stage("update_geopotential_height_on_c_grid", it),
               Stage("riem_solver_c", it) >>)
    \o << Start("uc__vc", it) >>
    \o When(c.nord > 0, << Wait("divgd", it) >>)
    \o << Wait("uc__vc", it) >>

\* the C-grid update, the C-grid vertical solve, the pressure-gradient
\* completion and the exchange of the C-grid winds
SubStepCGrid(c, it) ==
    << Stage("c_sw", it) >>
    \o When(c.nord > 0, << Start("divgd", it) >>)
    \o When(~c.hydrostatic,
            IF it = 0
            THEN << Wait("gz", it), Stage("copy_gz_to_zh", it) >>
            ELSE << Stage("copy_zh_to_gz", it) >>)
    \o When(~c.hydrostatic,
            << Stage("update_geopotential_height_on_c_grid", it),
               Stage("riem_solver_c", it) >>)
    \o << Stage("p_grad_c", it), Start("uc__vc", it) >>
    \o When(c.nord > 0, << Wait("divgd", it) >>)
    \o << Wait("uc__vc", it) >>

SubStepDGridWaitsAfterGeopotential(c, it) ==
    << Stage("d_sw", it) >>
    \o Update("delp__pt__q_con", it)
    \o When(~c.hydrostatic,
            << Stage("update_height_on_d_grid", it),
               Op("stage", "riem_solver3", it, RemapStep(c, it)),
               Start("zh", it), Start("pkc", it) >>
            \o When(RemapStep(c, it), << Stage("edge_pe", it) >>)
            \o (IF c.use_logp
                THEN << Op("raise", "NotImplementedError", it, FALSE) >>
                ELSE << Stage("pk3_halo", it) >>))
    \o When(~c.hydrostatic,
            << Stage("compute_geopotential", it), Wait("zh", it),
               Wait("pkc", it),
               Stage("nonhydrostatic_pressure_gradient", it) >>)

\* the D-grid update, the D-grid vertical solve and the nonhydrostatic
\* pressure-gradient correction
SubStepDGrid(c, it) ==
    << Stage("d_sw", it) >>
    \o Update("delp__pt__q_con", it)
    \o When(~c.hydrostatic,
            << Stage("update_height_on_d_grid", it),
               Op("stage", "riem_solver3", it, RemapStep(c, it)),
               Start("zh", it), Start("pkc", it) >>
            \o When(RemapStep(c, it), << Stage("edge_pe", it) >>)
            \o (IF c.use_logp
                THEN << Op("raise", "NotImplementedError", it, FALSE) >>
                ELSE << Stage("pk3_halo", it) >>))
    \o When(~c.hydrostatic,
            << Wait("zh", it), Stage("compute_geopotential", it),
               Wait("pkc", it),
               Stage("nonhydrostatic_pressure_gradient", it) >>)

SubStepTailAlwaysRestarts(c, it) ==
    When(c.rf_fast, << Stage("rayleigh_damping", it) >>)
    \o << Start("u__v", it) >>
    \o When(it = c.n_split - 1 /\ c.grid_type < GRID_TYPE_INTERFACE_MAX,
            << Op("interface", "interface_uc__vc", it, FALSE) >>)

SubStepTailStartsBeforeDamping(c, it) ==
    (IF it # c.n_split - 1
     THEN << Start("u__v", it) >>
     ELSE When(c.grid_type < GRID_TYPE_INTERFACE_MAX,
               << Op("interface", "interface_uc__vc", it, FALSE) >>))
    \o When(c.rf_fast, << Stage("rayleigh_damping", it) >>)

\* fast Rayleigh damping and the end of the loop body
SubStepTail(c, it) ==
    When(c.rf_fast, << Stage("rayleigh_damping", it) >>)
    \o (IF it # c.n_split - 1
        THEN << Start("u__v", it) >>
        ELSE When(c.grid_type < GRID_TYPE_INTERFACE_MAX,
                  << Op("interface", "interface_uc__vc", it, FALSE) >>))

SubStepOps(c, it, end_step) ==
    SubStepHead(c, it, end_step) \o SubStepCGrid(c, it)
    \o SubStepDGrid(c, it) \o SubStepTail(c, it)

\* for it in range(n_split): the operations of sub-steps it .. n_split - 1
RECURSIVE LoopOps(_, _, _)
LoopOps(c, it, end_step) ==
    IF it >= c.n_split
    THEN << >>
    ELSE SubStepOps(c, it, end_step) \o LoopOps(c, it + 1, end_step)

PostLoopOpsAdjustsInBothModes(c, del2cubed) ==
    When(del2cubed,
         Update("heat_source", -1)
         \o << Stage("hyperdiffusion", -1),
               Stage("compute_pkz_tempadjust", -1) >>)

PostLoopOps(c, del2cubed) ==
    When(del2cubed,
         Update("heat_source", -1)
         \o << Stage("hyperdiffusion", -1) >>
         \o When(~c.hydrostatic, << Stage("compute_pkz_tempadjust", -1) >>))

CallOps(c, del2cubed, nmap) ==
    PreLoopOps(c) \o LoopOps(c, 0, EndStep(c, nmap))
    \o PostLoopOps(c, del2cubed)

(***************************************************************************)
(* The stages.  LocalStencils are the stencils that dyn_core.py defines    *)
(* itself (and the copy stencil it instantiates); the others are the       *)
(* solver and update classes it calls.                                     *)
(***************************************************************************)
LocalStencils ==
    {"zero_data", "set_gz", "set_pem", "copy_gz_to_zh", "copy_zh_to_gz",
     "p_grad_c", "compute_geopotential"}

Solvers ==
    {"c_sw", "update_geopotential_height_on_c_grid", "riem_solver_c", "d_sw",
     "update_height_on_d_grid", "riem_solver3", "edge_pe", "pk3_halo",
     "nonhydrostatic_pressure_gradient", "rayleigh_damping", "hyperdiffusion",
     "compute_pkz_tempadjust"}

StageNames == LocalStencils \cup Solvers

\* the fields dyncore_temporaries allocates; the scheduler owns them
TemporaryNames ==
    {"ut", "vt", "gz", "zh", "pem", "pkc", "pk3", "heat_source", "divgd",
     "ws3", "crx", "xfx", "cry", "yfx"}

\* the attributes of self that the call site of a stage dereferences
StageAttrs(s) ==
    CASE s = "zero_data" -> {"_zero_data"}
      [] s = "set_gz" -> {"_set_gz", "_zs"}
      [] s = "set_pem" -> {"_set_pem"}
      [] s = "c_sw" -> {"cgrid_shallow_water_lagrangian_dynamics"}
      [] s \in {"copy_gz_to_zh", "copy_zh_to_gz"} -> {"_copy_stencil"}
      [] s = "update_geopotential_height_on_c_grid" ->
            {"update_geopotential_height_on_c_grid", "_dp_ref", "_zs"}
      [] s = "riem_solver_c" -> {"riem_solver_c"}
      [] s = "p_grad_c" -> {"_p_grad_c"}
      [] s = "d_sw" -> {"dgrid_shallow_water_lagrangian_dynamics"}
      [] s = "update_height_on_d_grid" -> {"update_height_on_d_grid", "_zs"}
      [] s = "riem_solver3" -> {"riem_solver3", "_zs"}
      [] s = "edge_pe" -> {"_edge_pe_stencil"}
      [] s = "pk3_halo" -> {"_pk3_halo"}
      [] s = "compute_geopotential" -> {"_compute_geopotential_stencil"}
      [] s = "nonhydrostatic_pressure_gradient" ->
            {"nonhydrostatic_pressure_gradient"}
      [] s = "rayleigh_damping" -> {"_rayleigh_damping", "_dp_ref"}
      [] s = "hyperdiffusion" -> {"_hyperdiffusion"}
      [] s = "compute_pkz_tempadjust" -> {"_compute_pkz_tempadjust"}

\* fields a local stencil writes; zero_data clears the heat accumulators
\* only on the first remap step
StencilWrites(s, first_timestep) ==
    CASE s = "zero_data" ->
            {"mfxd", "mfyd", "cxd", "cyd"}
            \cup (IF first_timestep THEN {"heat_source", "diss_estd"} ELSE {})
      [] s = "set_gz" -> {"gz"}
      [] s = "set_pem" -> {"pem"}
      [] s = "copy_gz_to_zh" -> {"zh"}
      [] s = "copy_zh_to_gz" -> {"gz"}
      [] s = "p_grad_c" -> {"uc", "vc"}
      [] s = "compute_geopotential" -> {"gz"}

\* fields a local stencil reads
StencilReads(s) ==
    CASE s = "zero_data" -> {}
      [] s = "set_gz" -> {"delz"}
      [] s = "set_pem" -> {"delp"}
      [] s = "copy_gz_to_zh" -> {"gz"}
      [] s = "copy_zh_to_gz" -> {"zh"}
      [] s = "p_grad_c" -> {"uc", "vc", "delpc", "pkc", "gz"}
      [] s = "compute_geopotential" -> {"zh"}

\* fields a solver or update class writes, among the arguments it is passed
SolverWrites(s) ==
    CASE s = "c_sw" ->
            {"delpc", "ptc", "uc", "vc", "ua", "va", "ut", "vt", "divgd",
             "omga"}
      [] s = "update_geopotential_height_on_c_grid" -> {"gz", "ws3"}
      [] s = "riem_solver_c" -> {"gz", "pkc", "omga"}
      [] s = "d_sw" ->
            {"vt", "delp", "pt", "u", "v", "w", "uc", "vc", "ua", "va",
             "divgd", "mfxd", "mfyd", "cxd", "cyd", "crx", "cry", "xfx", "yfx",
             "q_con", "heat_source", "diss_estd"}
      [] s = "update_height_on_d_grid" -> {"zh", "wsd"}
      [] s = "riem_solver3" ->
            {"delz", "zh", "pe", "pkc", "pk3", "pk", "peln", "w"}
      [] s = "edge_pe" -> {"pe"}
      [] s = "pk3_halo" -> {"pk3"}
      [] s = "nonhydrostatic_pressure_gradient" -> {"u", "v"}
      [] s = "rayleigh_damping" -> {"u", "v", "w"}
      [] s = "hyperdiffusion" -> {"heat_source"}
      [] s = "compute_pkz_tempadjust" -> {"pt", "pkz"}

\* fields a solver or update class reads, among the arguments it is passed
SolverReads(s) ==
    CASE s = "c_sw" -> {"delp", "pt", "u", "v", "w"}
      [] s = "update_geopotential_height_on_c_grid" -> {"ut", "vt", "gz"}
      [] s = "riem_solver_c" ->
            {"cappa", "phis", "ws3", "ptc", "q_con", "delpc", "gz"}
      [] s = "d_sw" ->
            {"delp", "pt", "u", "v", "w", "uc", "vc", "ua", "va", "divgd",
             "mfxd", "mfyd", "cxd", "cyd", "q_con", "heat_source",
             "diss_estd"}
      [] s = "update_height_on_d_grid" ->
            {"zh", "crx", "cry", "xfx", "yfx"}
      [] s = "riem_solver3" ->
            {"cappa", "wsd", "delz", "q_con", "delp", "pt", "zh", "w"}
      [] s = "edge_pe" -> {"delp"}
      [] s = "pk3_halo" -> {"pk3", "delp"}
      [] s = "nonhydrostatic_pressure_gradient" ->
            {"u", "v", "pkc", "gz", "pk3", "delp"}
      [] s = "rayleigh_damping" -> {"u", "v", "w"}
      [] s = "hyperdiffusion" -> {"heat_source"}
      [] s = "compute_pkz_tempadjust" ->
            {"delp", "delz", "cappa", "heat_source", "pt"}

StageWrites(s, first_timestep) ==
    IF s \in LocalStencils THEN StencilWrites(s, first_timestep)
    ELSE SolverWrites(s)

StageReads(s) ==
    IF s \in LocalStencils THEN StencilReads(s) ELSE SolverReads(s)

\* Local stencils whose domain covers the halo, so that their output is as
\* current in the halo as their input: <<output, input>>.
HaloCarried(s) ==
    CASE s = "copy_gz_to_zh" -> {<<"zh", "gz">>}
      [] s = "copy_zh_to_gz" -> {<<"gz", "zh">>}
      [] s = "compute_geopotential" -> {<<"gz", "zh">>}
      [] OTHER -> {}

\* Exchanged fields a local stencil reads in the halo: set_pem runs on the
\* compute domain widened by one cell, compute_geopotential by two.
StencilHaloReads(s) ==
    CASE s = "set_pem" -> {"delp"}
      [] s = "compute_geopotential" -> {"zh"}
      [] OTHER -> {}

\* Exchanged fields a solver or update class reads across cell boundaries.
SolverHaloReads(c, s) ==
    CASE s = "c_sw" ->
            {"delp", "pt", "u", "v"}
            \cup (IF c.hydrostatic THEN {} ELSE {"w"})
      [] s = "update_geopotential_height_on_c_grid" -> {"gz"}
      [] s = "d_sw" ->
            {"uc", "vc"} \cup (IF c.nord > 0 THEN {"divgd"} ELSE {})
      [] s = "update_height_on_d_grid" -> {"zh"}
      [] s = "nonhydrostatic_pressure_gradient" -> {"pkc", "gz"}
      [] OTHER -> {}

HaloReads(c, s) ==
    IF s \in LocalStencils THEN StencilHaloReads(s) ELSE SolverHaloReads(c, s)

(***************************************************************************)
(* The scheduler as a state machine: construction, then calls, each call   *)
(* running its operations one at a time.                                   *)
(***************************************************************************)
NoCounts == [s \in StageNames \cup {"interface"} |-> 0]

AllStale == [f \in ExchangedFields |-> "stale"]

Running == phase = "running" /\ pc <= Len(ops)

NextOp == ops[pc]

\* whether the next operation can run, and the exception it raises if not
OpError(c, made, op) ==
    CASE op.k = "raise" -> op.n
      [] op.k \in {"start", "wait"} /\ "_halo_updaters" \notin made ->
            "AttributeError"
      [] op.k = "start" /\ ~IsWrapped(c, op.n) -> "TypeError"
      [] op.k = "stage" /\ ~(StageAttrs(op.n) \subseteq made) ->
            "AttributeError"
      [] OTHER -> None

SchedInit ==
    /\ cfg \in Configs
    /\ phase = "new"
    /\ created = {}
    /\ nk_heat_dissipation = 0
    /\ do_del2cubed = FALSE
    /\ n_map = 0
    /\ ops = << >>
    /\ pc = 0
    /\ inflight = {}
    /\ halo = AllStale
    /\ written = {}
    /\ count = NoCounts
    /\ err = None
    /\ adjusted = {}
    /\ dp_ref_runs = << >>

\* AcousticDynamics.__init__
Construct ==
    /\ phase = "new"
    /\ LET steps == CtorSteps(cfg)
           f == FirstFailure(steps)
           nk == get_nk_heat_dissipation(cfg.d_grid_shallow_water, cfg.npz)
       IN  /\ created' = CreatedBy(steps)
           /\ phase' = IF f = 0 THEN "ready" ELSE "rejected"
           /\ err' = IF f = 0 THEN None ELSE "AssertionError"
           /\ nk_heat_dissipation' =
                 IF "_nk_heat_dissipation" \in CreatedBy(steps) THEN nk ELSE 0
           /\ do_del2cubed' =
                 IF "_do_del2cubed" \in CreatedBy(steps)
                 THEN DoDel2Cubed(nk, cfg.d_con)
                 ELSE FALSE
           /\ dp_ref_runs' =
                 IF "_dp_ref" \in CreatedBy(steps)
                 THEN << [at |-> "__init__", it |-> 0 - 1] >>
                 ELSE << >>
    /\ UNCHANGED <<cfg, n_map, ops, pc, inflight, halo, written, count, adjusted,
                   pf, fvt, tmp_heat_source, seen, mesh>>

\* entry of AcousticDynamics.__call__(state, n_map); the caller has changed
\* the state since the last call, so no halo is current
CallBegin ==
    /\ phase = "ready"
    /\ \E nmap \in 1..cfg.k_split :
          /\ n_map' = nmap
          /\ ops' = CallOps(cfg, do_del2cubed, nmap)
    /\ phase' = "running"
    /\ pc' = 1
    /\ written' = {}
    /\ count' = NoCounts
    /\ halo' = AllStale
    /\ adjusted' = {}
    /\ UNCHANGED <<cfg, created, nk_heat_dissipation, do_del2cubed, inflight,
                   err, dp_ref_runs, pf, fvt, tmp_heat_source, seen, mesh>>

\* _WrappedHaloUpdater.start
DoStart ==
    /\ Running
    /\ NextOp.k = "start"
    /\ OpError(cfg, created, NextOp) = None
    /\ inflight' = inflight \cup {NextOp.n}
    /\ halo' = [f \in ExchangedFields |->
                   IF f \in HandleFields(NextOp.n) THEN "sending" ELSE halo[f]]
    /\ pc' = pc + 1
    /\ UNCHANGED <<cfg, phase, created, nk_heat_dissipation, do_del2cubed,
                   n_map, ops, written, count, err, adjusted,
                   dp_ref_runs, pf, fvt, tmp_heat_source, seen, mesh>>

\* _WrappedHaloUpdater.wait
DoWait ==
    /\ Running
    /\ NextOp.k = "wait"
    /\ OpError(cfg, created, NextOp) = None
    /\ inflight' = inflight \ {NextOp.n}
    /\ halo' = [f \in ExchangedFields |->
                   IF f \in HandleFields(NextOp.n) /\ halo[f] = "sending"
                   THEN "fresh"
                   ELSE halo[f]]
    /\ pc' = pc + 1
    /\ UNCHANGED <<cfg, phase, created, nk_heat_dissipation, do_del2cubed,
                   n_map, ops, written, count, err, adjusted,
                   dp_ref_runs, pf, fvt, tmp_heat_source, seen, mesh>>

\* the vertical levels of the domain of _compute_pkz_tempadjust: the top nk
TempAdjustLevels(nk) == 0..(nk - 1)

\* the halo state of field f after stage s wrote it
HaloAfterWrite(s, f, h) ==
    LET from == {p \in HaloCarried(s) : p[1] = f}
    IN  IF from = {} THEN "stale"
        ELSE LET src == (CHOOSE p \in from : TRUE)[2]
             IN  IF h[src] = "fresh" THEN "fresh" ELSE "stale"

\* a stencil, a solver or an update class runs
DoStage ==
    /\ Running
    /\ NextOp.k = "stage"
    /\ OpError(cfg, created, NextOp) = None
    /\ LET s == NextOp.n
           w == StageWrites(s, n_map = 1)
       IN  /\ written' = written \cup w
           /\ halo' = [f \in ExchangedFields |->
                          IF f \in w THEN HaloAfterWrite(s, f, halo)
                          ELSE halo[f]]
           /\ count' = [count EXCEPT ![s] = @ + 1]
           /\ adjusted' = IF s = "compute_pkz_tempadjust"
                          THEN adjusted \cup TempAdjustLevels(nk_heat_dissipation)
                          ELSE adjusted
    /\ pc' = pc + 1
    /\ UNCHANGED <<cfg, phase, created, nk_heat_dissipation, do_del2cubed,
                   n_map, ops, inflight, err, dp_ref_runs, pf, fvt,
                   tmp_heat_source, seen, mesh>>

\* _WrappedHaloUpdater.interface on the last sub-step
DoInterface ==
    /\ Running
    /\ NextOp.k = "interface"
    /\ OpError(cfg, created, NextOp) = None
    /\ count' = [count EXCEPT !["interface"] = @ + 1]
    /\ pc' = pc + 1
    /\ UNCHANGED <<cfg, phase, created, nk_heat_dissipation, do_del2cubed,
                   n_map, ops, inflight, halo, written, err, adjusted,
                   dp_ref_runs, pf, fvt, tmp_heat_source, seen, mesh>>

\* state.__dict__.update(self._temporaries)
DoAttach ==
    /\ Running
    /\ NextOp.k = "attach"
    /\ pc' = pc + 1
    /\ UNCHANGED <<cfg, phase, created, nk_heat_dissipation, do_del2cubed,
                   n_map, ops, inflight, halo, written, count, err, adjusted,
                   dp_ref_runs, pf, fvt, tmp_heat_source, seen, mesh>>

\* the next operation raises: the call ends there with the exception
DoRaise ==
    /\ Running
    /\ OpError(cfg, created, NextOp) # None
    /\ phase' = "raised"
    /\ err' = OpError(cfg, created, NextOp)
    /\ UNCHANGED <<cfg, created, nk_heat_dissipation, do_del2cubed, n_map, ops,
                   pc, inflight, halo, written, count, adjusted,
                   dp_ref_runs, pf, fvt, tmp_heat_source, seen, mesh>>

\* the call returns after its last operation
CallReturn ==
    /\ phase = "running"
    /\ pc > Len(ops)
    /\ phase' = "ready"
    /\ UNCHANGED <<cfg, created, nk_heat_dissipation, do_del2cubed, n_map, ops,
                   pc, inflight, halo, written, count, err, adjusted,
                   dp_ref_runs, pf, fvt, tmp_heat_source, seen, mesh>>

NoResults == [m \in 1..MaxKSplit |-> {}]

CallsParked == tmp_heat_source = 0 /\ seen = NoResults

MeshParked == mesh = None

Init == SchedInit /\ pf = None /\ fvt = None /\ CallsParked /\ MeshParked

Next ==
    \/ Construct
    \/ CallBegin
    \/ DoStart
    \/ DoWait
    \/ DoStage
    \/ DoInterface
    \/ DoAttach
    \/ DoRaise
    \/ CallReturn

Spec == Init /\ [][Next]_vars

(***************************************************************************)
(* Properties of the scheduler, checked under Spec.                        *)
(***************************************************************************)
Accepted(c) == c.d_ext = 0 /\ c.beta = 0 /\ ~c.use_logp

\* a call was made and is over, by return or by an exception
CallEnded == (phase = "ready" /\ n_map # 0) \/ phase = "raised"

\* the next operation is a stage that is about to run
StageNext == Running /\ NextOp.k = "stage" /\ OpError(cfg, created, NextOp) = None

\* C1: one call runs exactly n_split C-grid updates and exactly n_split
\* D-grid updates, alternating C then D, and exactly one hyperdiffusion pass
\* after the last D-grid update when damping is enabled, none when it is not,
\* for every configuration that construction accepts.
C1_ExactSubSteps ==
    /\ count["d_sw"] <= count["c_sw"]
    /\ count["c_sw"] <= count["d_sw"] + 1
    /\ count["hyperdiffusion"] > 0 => count["d_sw"] = cfg.n_split
    /\ CallEnded =>
          /\ count["c_sw"] = cfg.n_split
          /\ count["d_sw"] = cfg.n_split
          /\ count["hyperdiffusion"] = IF do_del2cubed THEN 1 ELSE 0

\* C2: construction with d_ext != 0, beta != 0 or use_logp fails with the
\* assertion before any temporary, solver, stencil or halo updater exists, so
\* that no call ever starts an exchange or runs a stage on such an instance.
C2_RejectedAtConstruction ==
    (~Accepted(cfg) /\ phase # "new") =>
        /\ phase = "rejected"
        /\ err = "AssertionError"
        /\ created = {}
        /\ inflight = {}
        /\ written = {}
        /\ count = NoCounts

C2_Witness == phase = "rejected" /\ cfg.use_logp /\ cfg.d_ext = 0 /\ cfg.beta = 0

ClaimedTemporaries ==
    TemporaryNames \ {"heat_source", "ws3"}

\* C7: every temporary (ut, vt, gz, zh, pem, pkc, pk3, divgd, crx, cry, xfx,
\* yfx) that a stage reads was written by an earlier stage of the same call,
\* in hydrostatic and in nonhydrostatic mode.
C7_TemporariesWrittenBeforeRead ==
    StageNext => (StageReads(NextOp.n) \cap ClaimedTemporaries) \subseteq written

\* C8: with rf_fast, Rayleigh damping runs exactly once in each of the
\* n_split sub-steps, after the D-grid update and the nonhydrostatic
\* pressure-gradient correction, in hydrostatic and nonhydrostatic
\* configurations alike; without rf_fast it never runs.
C8_RayleighEverySubStep ==
    /\ count["rayleigh_damping"] <= count["d_sw"]
    /\ ~cfg.hydrostatic =>
          count["rayleigh_damping"] <= count["nonhydrostatic_pressure_gradient"]
    /\ ~cfg.rf_fast => count["rayleigh_damping"] = 0
    /\ (CallEnded /\ cfg.rf_fast) => count["rayleigh_damping"] = cfg.n_split

Constructed == phase \in {"ready", "running", "raised"}
Returned == phase = "ready" /\ n_map # 0

\* C9 (as the code has it): the post-loop damping pass is enabled exactly
\* when nk_heat_dissipation is nonzero AND d_con > 1e-5; the decision is made
\* at construction, never changes afterwards, and a call that returns has
\* run the pass once when it is enabled and not at all otherwise.
C9_DampingNeedsBoth ==
    /\ [](Constructed =>
            /\ do_del2cubed =
                  (nk_heat_dissipation # 0 /\ cfg.d_con > D_CON_MIN)
            /\ Returned =>
                  count["hyperdiffusion"] = IF do_del2cubed THEN 1 ELSE 0)
    /\ [][Constructed => do_del2cubed' = do_del2cubed]_vars

\* a call returned without the damping pass although nk_heat_dissipation is
\* nonzero, because d_con is not above its threshold
C9_Witness ==
    /\ Returned
    /\ nk_heat_dissipation # 0
    /\ cfg.d_con <= D_CON_MIN
    /\ count["hyperdiffusion"] = 0
    /\ count["d_sw"] = cfg.n_split

\* C9 (as the spec has it): the damping pass is enabled when
\* nk_heat_dissipation is nonzero OR d_con > 1e-5.
C9_DampingNeedsEither ==
    Constructed =>
        do_del2cubed = (nk_heat_dissipation # 0 \/ cfg.d_con > D_CON_MIN)

\* C11: with damping enabled, the heat_source exchange is started and waited
\* after the last sub-step and before hyperdiffusion runs on heat_source; the
\* temperature adjustment runs after the hyperdiffusion, only in
\* nonhydrostatic mode, over exactly the top nk_heat_dissipation levels; in
\* hydrostatic mode the damping pass leaves pt alone.
C11_DampingPassOrder ==
    /\ (StageNext /\ NextOp.n = "hyperdiffusion") =>
          /\ do_del2cubed
          /\ count["d_sw"] = cfg.n_split
          /\ "heat_source" \notin inflight
          /\ \E i \in 1..(pc - 1) :
                /\ ops[i] = Start("heat_source", 0 - 1)
                /\ ops[i + 1] = Wait("heat_source", 0 - 1)
                /\ \A j \in 1..i : ops[j].n # "hyperdiffusion"
                /\ \A j \in i..pc : ops[j].n # "d_sw"
    /\ (StageNext /\ NextOp.n = "compute_pkz_tempadjust") =>
          /\ ~cfg.hydrostatic
          /\ count["hyperdiffusion"] = 1
    /\ cfg.hydrostatic =>
          (adjusted = {} /\ count["compute_pkz_tempadjust"] = 0)
    /\ Returned =>
          /\ do_del2cubed => count["hyperdiffusion"] = 1
          /\ adjusted = IF do_del2cubed /\ ~cfg.hydrostatic
                        THEN 0..(nk_heat_dissipation - 1)
                        ELSE {}

\* a nonhydrostatic call returned after adjusting pt in the top two levels
\* of a deeper column
C11_Witness ==
    /\ Returned
    /\ ~cfg.hydrostatic
    /\ nk_heat_dissipation = 2
    /\ cfg.npz > 2
    /\ adjusted = {0, 1}
    /\ count["hyperdiffusion"] = 1

\* C12: at the end of a sub-step that is not the last, the u/v exchange is
\* started and stays in flight until the next sub-step waits on it; in the
\* last sub-step no u/v exchange is started and the interface synchronisation
\* is performed exactly when grid_type < 4, at most once per call and never
\* in an earlier sub-step.
C12_TailOfSubStep ==
    /\ (Running /\ NextOp.k = "start" /\ NextOp.n = "u__v") =>
          /\ NextOp.it < cfg.n_split - 1
          /\ NextOp.it >= 0 => ops[pc + 1].it = NextOp.it + 1
    /\ (Running /\ pc > 1 /\ NextOp.it > 0 /\ ops[pc - 1].it < NextOp.it) =>
          /\ ops[pc - 1] = Start("u__v", NextOp.it - 1)
          /\ "u__v" \in inflight
    /\ (Running /\ NextOp.k = "interface") =>
          /\ NextOp.it = cfg.n_split - 1
          /\ cfg.grid_type < GRID_TYPE_INTERFACE_MAX
          /\ count["interface"] = 0
          /\ "u__v" \notin inflight
    /\ count["interface"] <= 1
    /\ Returned =>
          /\ "u__v" \notin inflight
          /\ count["interface"] =
                IF cfg.grid_type < GRID_TYPE_INTERFACE_MAX THEN 1 ELSE 0

\* the last sub-step of a longer call has synchronised the interfaces, after
\* earlier sub-steps restarted the u/v exchange
C12_Witness ==
    /\ Returned
    /\ cfg.n_split = MaxNSplit
    /\ count["interface"] = 1
    /\ count["d_sw"] = MaxNSplit

\* C13 (as the code has it): the D-grid Riemann solver is passed remap_step =
\* True, and the edge_pe stencil runs, in the final sub-step of a call and,
\* when breed_vortex_inline is set, in every sub-step; in the other sub-steps
\* remap_step is False and edge_pe does not run; in hydrostatic mode neither
\* runs at all.
C13_RemapStepLastOrBreeding ==
    /\ (StageNext /\ NextOp.n = "riem_solver3") =>
          NextOp.remap =
             (cfg.breed_vortex_inline \/ NextOp.it = cfg.n_split - 1)
    /\ (StageNext /\ NextOp.n = "edge_pe") =>
          (cfg.breed_vortex_inline \/ NextOp.it = cfg.n_split - 1)
    /\ count["edge_pe"] <= count["riem_solver3"]
    /\ cfg.hydrostatic => count["riem_solver3"] = 0
    /\ (Returned /\ ~cfg.hydrostatic) =>
          count["edge_pe"] = IF cfg.breed_vortex_inline THEN cfg.n_split ELSE 1

\* with breed_vortex_inline, edge_pe is about to run in the first of several
\* sub-steps
C13_Witness ==
    /\ StageNext
    /\ NextOp.n = "edge_pe"
    /\ NextOp.it = 0
    /\ cfg.n_split = MaxNSplit
    /\ cfg.breed_vortex_inline

\* C13 (as the spec has it): the pressure-edge update (remap_step = True and
\* the edge_pe stencil) happens only in the final sub-step of a call, for
\* every configuration.
C13_RemapStepOnlyInFinalSubStep ==
    /\ (StageNext /\ NextOp.n = "riem_solver3") =>
          NextOp.remap = (NextOp.it = cfg.n_split - 1)
    /\ (StageNext /\ NextOp.n = "edge_pe") => NextOp.it = cfg.n_split - 1

AtConstruction == [at |-> "__init__", it |-> 0 - 1]

\* C14 (as the code has it): dp_ref and the surface-height column are
\* computed once, by __init__ and only in nonhydrostatic mode, and no call
\* computes or changes them; gz is seeded from the surface height at
\* sub-step 0 of each nonhydrostatic call and by no other sub-step.
C14_ReferenceColumnsFromConstruction ==
    /\ Constructed =>
          dp_ref_runs = IF cfg.hydrostatic THEN << >> ELSE << AtConstruction >>
    /\ (StageNext /\ NextOp.n = "set_gz") =>
          /\ NextOp.it = 0
          /\ ~cfg.hydrostatic
          /\ count["set_gz"] = 0
          /\ "_zs" \in created
    /\ cfg.hydrostatic => count["set_gz"] = 0
    /\ (Running /\ ~cfg.hydrostatic /\ NextOp.it > 0) => count["set_gz"] = 1
    /\ (Returned /\ ~cfg.hydrostatic) => count["set_gz"] = 1

\* in the second sub-step of a nonhydrostatic call gz has been seeded once
\* and the reference columns are those of construction
C14_Witness ==
    /\ Running
    /\ ~cfg.hydrostatic
    /\ NextOp.it = 1
    /\ NextOp.n = "c_sw"
    /\ count["set_gz"] = 1
    /\ dp_ref_runs = << AtConstruction >>

\* C14 (as the spec has it): in each call dp_ref and the surface-height
\* column are computed once, at sub-step 0 of that call.
C14_ComputedAtSubStepZero ==
    (Returned /\ ~cfg.hydrostatic) =>
        \E i \in 1..Len(dp_ref_runs) :
            dp_ref_runs[i].at = "__call__" /\ dp_ref_runs[i].it = 0

(***************************************************************************)
(* SpecNk: get_nk_heat_dissipation applied to drawn damping parameters,    *)
(* with values on both sides of each threshold.                            *)
(***************************************************************************)
SchedParked ==
    /\ cfg = None
    /\ phase = "parked"
    /\ created = {}
    /\ nk_heat_dissipation = 0
    /\ do_del2cubed = FALSE
    /\ n_map = 0
    /\ ops = << >>
    /\ pc = 0
    /\ inflight = {}
    /\ halo = AllStale
    /\ written = {}
    /\ count = NoCounts
    /\ err = None
    /\ adjusted = {}
    /\ dp_ref_runs = << >>

NkInputs ==
    [ convert_ke : BOOLEAN, vtdm4 : {0, 10, 11, 6000},
      d2_bg_k1 : {0, 99, 100, 20000}, d2_bg_k2 : {0, 99, 100, 10000} ]

NkInit ==
    /\ pf \in [ config : NkInputs, npz : 1..MaxNpz, stage : {"args"}, nk : {0} ]
    /\ fvt = None
    /\ SchedParked
    /\ CallsParked
    /\ MeshParked

\* nk_heat_dissipation = get_nk_heat_dissipation(config, npz)
EvalNk ==
    /\ pf.stage = "args"
    /\ pf' = [pf EXCEPT !.stage = "returned",
                        !.nk = get_nk_heat_dissipation(pf.config, pf.npz)]
    /\ UNCHANGED <<schedVars, fvt, tmp_heat_source, seen, mesh>>

NkNext == EvalNk

SpecNk == NkInit /\ [][NkNext]_vars

\* C10: get_nk_heat_dissipation returns npz if convert_ke is set or
\* vtdm4 > 1e-4; otherwise 0 if d2_bg_k1 < 1e-3; otherwise 1 if
\* d2_bg_k2 < 1e-3; otherwise 2; the result is one of 0, 1, 2, npz.
C10_NkPolicy ==
    pf.stage = "returned" =>
        LET c == pf.config
            full == c.convert_ke \/ c.vtdm4 > VTDM4_MIN
        IN  /\ full => pf.nk = pf.npz
            /\ (~full /\ c.d2_bg_k1 < D2_BG_MIN) => pf.nk = 0
            /\ (~full /\ c.d2_bg_k1 >= D2_BG_MIN /\ c.d2_bg_k2 < D2_BG_MIN) =>
                  pf.nk = 1
            /\ (~full /\ c.d2_bg_k1 >= D2_BG_MIN /\ c.d2_bg_k2 >= D2_BG_MIN) =>
                  pf.nk = 2
            /\ pf.nk \in {0, 1, 2, pf.npz}

\* the policy chose one level: vtdm4 exactly at its threshold, d2_bg_k1 at
\* its threshold, d2_bg_k2 just below
C10_Witness ==
    /\ pf.stage = "returned"
    /\ pf.nk = 1
    /\ pf.npz = MaxNpz
    /\ pf.config.vtdm4 = VTDM4_MIN
    /\ pf.config.d2_bg_k1 = D2_BG_MIN
    /\ pf.config.d2_bg_k2 = D2_BG_MIN - 1

(***************************************************************************)
(* SpecFvt: FiniteVolumeTransport, constructed and then called.  An        *)
(* optional argument is a sequence of length 0 (None) or 1.  The content   *)
(* of a flux buffer is the sequence of what wrote it since the caller      *)
(* filled it.                                                              *)
(***************************************************************************)
IsNone(x) == x = << >>

\* __init__: the interior stencils only accept hord 8
StencilsFor(tile_interior, hord) ==
    IF tile_interior
    THEN IF hord = 8 THEN "interior" ELSE "AssertionError"
    ELSE "edge"

\* __init__ of both stencil classes: ord_inner
OrdInner(hord) == IF hord = 10 THEN 8 ELSE hord

\* __init__ of both stencil classes: ord_outer
OrdOuter(hord) == hord

\* the externals of the fused interior stencil
Externals(hord) == [jord |-> OrdInner(hord), iord |-> OrdOuter(hord)]

\* one step of call_stencils: field out is made by op, of order ord where op
\* is a reconstruction, from field of
Step(out, op, ord, of) == [out |-> out, op |-> op, ord |-> ord, of |-> of]

NoOrder == 0

\* _FiniteVolumeTransportEdgeStencils.call_stencils: the inner operators
\* reconstruct q, the outer ones the field advected along the other direction
EdgeCallStencils(ord_inner, ord_outer) ==
    << Step("q_y_advected_mean", "y_piecewise_parabolic", ord_inner,
            "q.y_differentiable"),
       Step("q_advected_y", "q_i_stencil", NoOrder, "q_y_advected_mean"),
       Step("q_advected_y_x_advected_mean", "x_piecewise_parabolic",
            ord_outer, "q_advected_y"),
       Step("q_x_advected_mean", "x_piecewise_parabolic", ord_inner,
            "q.x_differentiable"),
       Step("q_advected_x", "q_j_stencil", NoOrder, "q_x_advected_mean"),
       Step("q_advected_x_y_advected_mean", "y_piecewise_parabolic",
            ord_outer, "q_advected_x"),
       Step("x_flux", "final_fluxes", NoOrder,
            "q_advected_y_x_advected_mean + q_x_advected_mean"),
       Step("y_flux", "final_fluxes", NoOrder,
            "q_advected_x_y_advected_mean + q_y_advected_mean") >>

\* finite_volume_transport_interior: every x reconstruction has order iord,
\* every y reconstruction order jord
InteriorCallStencils(externals) ==
    << Step("q_y_advected_mean", "y_piecewise_parabolic", externals.jord,
            "q.y_differentiable"),
       Step("q_advected_y", "q_i_stencil", NoOrder, "q_y_advected_mean"),
       Step("q_advected_y_x_advected_mean", "x_piecewise_parabolic",
            externals.iord, "q_advected_y"),
       Step("q_x_advected_mean", "x_piecewise_parabolic", externals.iord,
            "q.x_differentiable"),
       Step("q_advected_x", "q_j_stencil", NoOrder, "q_x_advected_mean"),
       Step("q_advected_x_y_advected_mean", "y_piecewise_parabolic",
            externals.jord, "q_advected_x"),
       Step("x_flux", "final_fluxes", NoOrder,
            "q_advected_y_x_advected_mean + q_x_advected_mean"),
       Step("y_flux", "final_fluxes", NoOrder,
            "q_advected_x_y_advected_mean + q_y_advected_mean") >>

\* self._stencils.call_stencils
CallStencils(stencils, hord) ==
    IF stencils = "interior" THEN InteriorCallStencils(Externals(hord))
    ELSE EdgeCallStencils(OrdInner(hord), OrdOuter(hord))

\* __init__: self.delnflux is not None
HasDelnflux(nord, damp_c) == ~IsNone(nord) /\ ~IsNone(damp_c)

MassMissingXOnly(delnflux, x_mass_flux, y_mass_flux, mass) ==
    delnflux /\ IsNone(mass) /\ ~IsNone(x_mass_flux)

\* __call__: the condition of the ValueError
MassMissing(delnflux, x_mass_flux, y_mass_flux, mass) ==
    delnflux /\ IsNone(mass) /\ (~IsNone(x_mass_flux) \/ ~IsNone(y_mass_flux))

\* __call__: x_unit_flux, y_unit_flux
UnitFlux(area_flux, mass_flux) ==
    IF IsNone(mass_flux) THEN area_flux ELSE mass_flux[1]

Optional(v) == {<< >>, <<v>>}

FvtInit ==
    /\ fvt \in [ tile_interior : BOOLEAN, hord : {5, 8, 10},
                 nord : {<< >>, <<0>>, <<2>>}, damp_c : Optional("damp_c"),
                 phase : {"new"}, stencils : {None}, delnflux : {FALSE},
                 ord_inner : {NoOrder}, ord_outer : {NoOrder},
                 steps : {<< >>},
                 called : {FALSE}, x_mass_flux : {<< >>},
                 y_mass_flux : {<< >>}, mass : {<< >>}, raised : {None},
                 ran : {<< >>}, q_x_before : {<< >>}, q_y_before : {<< >>},
                 q_x_flux : {<< >>}, q_y_flux : {<< >>} ]
    /\ pf = None
    /\ SchedParked
    /\ CallsParked
    /\ MeshParked

\* FiniteVolumeTransport.__init__
FvtConstruct ==
    /\ fvt.phase = "new"
    /\ LET st == StencilsFor(fvt.tile_interior, fvt.hord)
       IN  fvt' = IF st = "AssertionError"
                  THEN [fvt EXCEPT !.phase = "rejected"]
                  ELSE [fvt EXCEPT !.phase = "ready", !.stencils = st,
                                   !.ord_inner = OrdInner(fvt.hord),
                                   !.ord_outer = OrdOuter(fvt.hord),
                                   !.delnflux = HasDelnflux(fvt.nord, fvt.damp_c)]
    /\ UNCHANGED <<schedVars, pf, tmp_heat_source, seen, mesh>>

\* FiniteVolumeTransport.__call__
FvtCall ==
    /\ fvt.phase = "ready"
    /\ \E xmf \in Optional("x_mass_flux"), ymf \in Optional("y_mass_flux"),
          m \in Optional("mass") :
          LET args == [fvt EXCEPT !.called = TRUE, !.x_mass_flux = xmf,
                                  !.y_mass_flux = ymf, !.mass = m,
                                  !.q_x_before = fvt.q_x_flux,
                                  !.q_y_before = fvt.q_y_flux]
          IN  fvt' =
                IF MassMissing(fvt.delnflux, xmf, ymf, m)
                THEN [args EXCEPT !.raised = "ValueError", !.ran = << >>,
                                  !.steps = << >>]
                ELSE [args EXCEPT
                        !.raised = None,
                        !.steps = CallStencils(fvt.stencils, fvt.hord),
                        !.ran = << "call_stencils" >>
                                \o (IF fvt.delnflux THEN << "delnflux" >>
                                    ELSE << >>),
                        !.q_x_flux =
                            << UnitFlux("x_area_flux", xmf) >>
                            \o (IF fvt.delnflux THEN << "delnflux" >>
                                ELSE << >>),
                        !.q_y_flux =
                            << UnitFlux("y_area_flux", ymf) >>
                            \o (IF fvt.delnflux THEN << "delnflux" >>
                                ELSE << >>)]
    /\ UNCHANGED <<schedVars, pf, tmp_heat_source, seen, mesh>>

FvtNext ==
    \/ FvtConstruct
    \/ FvtCall

SpecFvt == FvtInit /\ [][FvtNext]_vars

\* C3: with the flux damper enabled (nord and damp_c both given), a call with
\* an x or y mass flux but no mass raises ValueError before the transport
\* stencils or the damper run and leaves q_x_flux and q_y_flux as they were;
\* with mass given, or with the damper disabled, the call runs the transport
\* stencils.
C3_MassRequiredWithDamping ==
    fvt.called =>
        LET enabled == ~IsNone(fvt.nord) /\ ~IsNone(fvt.damp_c)
            misuse == /\ enabled
                      /\ ~IsNone(fvt.x_mass_flux) \/ ~IsNone(fvt.y_mass_flux)
                      /\ IsNone(fvt.mass)
        IN  /\ misuse =>
                 /\ fvt.raised = "ValueError"
                 /\ fvt.ran = << >>
                 /\ fvt.q_x_flux = fvt.q_x_before
                 /\ fvt.q_y_flux = fvt.q_y_before
            /\ ~misuse =>
                 /\ fvt.raised = None
                 /\ Len(fvt.ran) >= 1
                 /\ fvt.ran[1] = "call_stencils"
                 /\ (Len(fvt.ran) = 2) = enabled

\* a call with only a y mass flux raised, on buffers that an earlier call of
\* the same operator had filled and damped
C3_Witness ==
    /\ fvt.called
    /\ fvt.raised = "ValueError"
    /\ IsNone(fvt.x_mass_flux)
    /\ ~IsNone(fvt.y_mass_flux)
    /\ fvt.q_x_flux = << "x_area_flux", "delnflux" >>
    /\ fvt.q_y_flux = << "y_mass_flux", "delnflux" >>

\* C15: for every configured hord the operator is built, with outer order
\* hord and inner order 8 if hord = 10 and hord otherwise, on edge-adjacent
\* and interior sub-domains alike; a call with hord = 10 reconstructs q with
\* order 8 and the advected fields with order 10.
C15_OrderSubstitutionEverywhere ==
    /\ fvt.phase # "new" =>
          /\ fvt.phase = "ready"
          /\ fvt.ord_outer = fvt.hord
          /\ fvt.ord_inner = IF fvt.hord = 10 THEN 8 ELSE fvt.hord
    /\ (fvt.called /\ fvt.raised = None /\ fvt.hord = 10) =>
          /\ fvt.steps # << >>
          /\ \A i \in 1..Len(fvt.steps) :
                LET st == fvt.steps[i]
                IN  /\ st.of \in {"q.x_differentiable", "q.y_differentiable"}
                          => st.ord = 8
                    /\ st.of \in {"q_advected_x", "q_advected_y"}
                          => st.ord = 10

\* C16: on a sub-domain with no tile-edge adjacency, for every configured
\* hord, the interior variant is built and its call applies the same
\* reconstructions, with the same orders on the same fields, and combines
\* them into the same fluxes as the edge variant does.
C16_InteriorMatchesEdge ==
    (fvt.tile_interior /\ fvt.phase # "new") =>
        /\ fvt.phase = "ready"
        /\ fvt.stencils = "interior"
        /\ (fvt.called /\ fvt.raised = None) =>
              fvt.steps = EdgeCallStencils(OrdInner(fvt.hord),
                                           OrdOuter(fvt.hord))

(***************************************************************************)
(* SpecCalls: whole calls of one scheduler instance.  Before every call    *)
(* the caller gives the prognostic fields the same values, so that all     *)
(* calls with the same n_map have equal inputs.  The content of the        *)
(* scheduler's heat_source buffer is the number of D-grid updates that     *)
(* have added to it since it was last zeroed; the call's result is what    *)
(* the temperature adjustment put into pt: the heat_source content it      *)
(* converted, or -1 when it did not run.                                   *)
(***************************************************************************)
MaxAccumulated == 6

NoAdjustment == 0 - 1

CallConfigs ==
    {c \in Configs : /\ c.d_ext = 0 /\ c.beta = 0 /\ ~c.use_logp
                     /\ c.nord = 0 /\ c.grid_type = 0
                     /\ ~c.use_old_omega /\ ~c.breed_vortex_inline}

\* zero_data: heat_source = 0.0 only if first_timestep
ZeroedHeatSource(h, first_timestep) == IF first_timestep THEN 0 ELSE h

\* the D-grid update adds the heat of this sub-step to heat_source
DswHeatSource(h) == h + 1

\* the operations of a call that run: those before the first that raises
Completed(c, made, seq) ==
    LET bad == {i \in 1..Len(seq) : OpError(c, made, seq[i]) # None}
    IN  IF bad = {} THEN seq
        ELSE SubSeq(seq, 1, (CHOOSE i \in bad : \A j \in bad : i <= j) - 1)

\* the exception that ends the call, None when it returns
Raised(c, made, seq) ==
    IF Len(Completed(c, made, seq)) = Len(seq) THEN None
    ELSE OpError(c, made, seq[Len(Completed(c, made, seq)) + 1])

\* the stages that touch heat_source or convert it
HeatStages == {"zero_data", "d_sw", "compute_pkz_tempadjust"}

IsHeatStage(op) == op.k = "stage" /\ op.n \in HeatStages

\* the data after stage op: d.h is the heat_source buffer, d.pt the
\* adjustment of pt
DataAfter(nmap, op, d) ==
    CASE op.n = "zero_data" ->
            [d EXCEPT !.h = ZeroedHeatSource(d.h, nmap = 1)]
      [] op.n = "d_sw" -> [d EXCEPT !.h = DswHeatSource(d.h)]
      [] op.n = "compute_pkz_tempadjust" -> [d EXCEPT !.pt = d.h]

RECURSIVE RunStages(_, _, _, _)
RunStages(nmap, seq, i, d) ==
    IF i > Len(seq) THEN d
    ELSE RunStages(nmap, seq, i + 1, DataAfter(nmap, seq[i], d))

CallsInit ==
    /\ SchedInit
    /\ cfg \in CallConfigs
    /\ pf = None
    /\ fvt = None
    /\ CallsParked
    /\ MeshParked

\* AcousticDynamics.__call__(state, n_map), from entry to return or raise
Call ==
    /\ phase \in {"ready", "raised"}
    /\ \E nmap \in 1..cfg.k_split :
          LET all == CallOps(cfg, do_del2cubed, nmap)
              ran == SelectSeq(Completed(cfg, created, all), IsHeatStage)
              e == Raised(cfg, created, all)
              d == RunStages(nmap, ran, 1,
                             [h |-> tmp_heat_source, pt |-> NoAdjustment])
          IN  /\ d.h <= MaxAccumulated
              /\ n_map' = nmap
              /\ tmp_heat_source' = d.h
              /\ err' = e
              /\ phase' = IF e = None THEN "ready" ELSE "raised"
              /\ seen' = IF e = None
                         THEN [seen EXCEPT ![nmap] = @ \cup {d.pt}]
                         ELSE seen
    /\ UNCHANGED <<cfg, created, nk_heat_dissipation, do_del2cubed, ops, pc,
                   inflight, halo, written, count, adjusted, dp_ref_runs, pf,
                   fvt, mesh>>

CallsNext ==
    \/ Construct
    \/ Call

SpecCalls == CallsInit /\ [][CallsNext]_vars

\* C6: two calls of one instance with equal prognostic fields and equal
\* n_map end with equal prognostic fields, whatever calls came before.
C6_NoHiddenState ==
    \A m \in 1..MaxKSplit : Cardinality(seen[m]) <= 1

(***************************************************************************)
(* SpecRest: one hydrostatic sub-step on an atmosphere at rest, followed   *)
(* at one cell C and its four neighbours, on the two interfaces of one     *)
(* layer.  Floating-point values are exact fractions n/d together with the *)
(* IEEE infinities and NaN; rounding is not modelled.  pkc and gz are the  *)
(* fields the hydrostatic sub-step reads without having written them, so   *)
(* their content is drawn.                                                 *)
(***************************************************************************)
MaxPkc == 1

Fin(n) == [cls |-> "finite", n |-> n, d |-> 1]

NaN == [cls |-> "nan", n |-> 0, d |-> 1]

Inf(sign) == [cls |-> "inf", n |-> sign, d |-> 1]

Sign(n) == IF n > 0 THEN 1 ELSE IF n < 0 THEN 0 - 1 ELSE 0

IsZero(x) == x.cls = "finite" /\ x.n = 0

\* a == b on floats: NaN equals nothing
FEq(a, b) ==
    \/ a.cls = "finite" /\ b.cls = "finite" /\ a.n * b.d = b.n * a.d
    \/ a.cls = "inf" /\ b.cls = "inf" /\ a.n = b.n

FNeg(x) == [x EXCEPT !.n = 0 - x.n]

\* a + b
FAdd(a, b) ==
    IF a.cls = "nan" \/ b.cls = "nan" THEN NaN
    ELSE IF a.cls = "inf"
         THEN IF b.cls = "inf" /\ b.n # a.n THEN NaN ELSE a
    ELSE IF b.cls = "inf" THEN b
    ELSE [cls |-> "finite", n |-> a.n * b.d + b.n * a.d, d |-> a.d * b.d]

\* a - b
FSub(a, b) == FAdd(a, FNeg(b))

\* a * b
FMul(a, b) ==
    IF a.cls = "nan" \/ b.cls = "nan" THEN NaN
    ELSE IF a.cls = "inf" \/ b.cls = "inf"
         THEN IF IsZero(a) \/ IsZero(b) THEN NaN
              ELSE Inf(Sign(a.n) * Sign(b.n))
    ELSE [cls |-> "finite", n |-> a.n * b.n, d |-> a.d * b.d]

\* a / b in a stencil: division by zero gives an infinity or NaN
FDiv(a, b) ==
    IF a.cls = "nan" \/ b.cls = "nan" THEN NaN
    ELSE IF b.cls = "inf" THEN IF a.cls = "inf" THEN NaN ELSE Fin(0)
    ELSE IF a.cls = "inf"
         THEN Inf(a.n * (IF b.n < 0 THEN 0 - 1 ELSE 1))
    ELSE IF b.n = 0 THEN IF a.n = 0 THEN NaN ELSE Inf(Sign(a.n))
    ELSE [cls |-> "finite", n |-> a.n * b.d * Sign(b.n),
          d |-> a.d * b.n * Sign(b.n)]

Cells == {"C", "W", "E", "S", "N"}

\* the value of an interface field at cell c: level 1 is k, level 2 is k + 1
At(field, c, level) == Fin(field[c][level])

\* dt2 * rdxc and dt2 * rdyc, positive on any grid
Dt2Rdc == Fin(1)

\* p_grad_c_stencil: wk
Wk(hydrostatic, pkc, delpc, c) ==
    IF hydrostatic THEN FSub(At(pkc, c, 2), At(pkc, c, 1)) ELSE delpc

\* p_grad_c_stencil: the updated C-grid wind on the face between cell a (the
\* neighbour at offset -1) and cell b
PGradC(hydrostatic, wind, pkc, gz, delpc, a, b) ==
    FAdd(wind,
         FMul(FDiv(Dt2Rdc, FAdd(Wk(hydrostatic, pkc, delpc, a),
                                Wk(hydrostatic, pkc, delpc, b))),
              FAdd(FMul(FSub(At(gz, a, 2), At(gz, b, 1)),
                        FSub(At(pkc, b, 2), At(pkc, a, 1))),
                   FMul(FSub(At(gz, a, 1), At(gz, b, 2)),
                        FSub(At(pkc, a, 2), At(pkc, b, 1))))))

\* the D-grid update takes its Courant numbers and its area fluxes from the
\* C-grid winds: each is the wind times a positive grid factor
DswUnitFlux(wind) == FMul(wind, Fin(1))

\* the advected mean of a constant field is that constant
AdvectedMean(q) == q

\* final_fluxes: 0.5 * (outer mean + inner mean) * unit flux
FinalFlux(outer_mean, inner_mean, unit_flux) ==
    FMul(FMul([cls |-> "finite", n |-> 1, d |-> 2],
              FAdd(outer_mean, inner_mean)),
         unit_flux)

\* delp = delp + flux_increment(delp_x_flux, delp_y_flux, rarea), with
\* flux_increment = (gx - gx[1, 0, 0] + gy - gy[0, 1, 0]) * rarea
ApplyDelpFluxes(delp, gx, gx_east, gy, gy_north, rarea) ==
    FAdd(delp, FMul(FAdd(FSub(gx, gx_east), FSub(gy, gy_north)), rarea))

\* contents of gz: all zero, uniform along the horizontal, raised at C
GzFields ==
    { [c \in Cells |-> <<0, 0>>],
      [c \in Cells |-> <<1, 0>>],
      [c \in Cells |-> IF c = "C" THEN <<2, 1>> ELSE <<1, 0>>] }

PkcFields == [Cells -> (0..MaxPkc) \X (0..MaxPkc)]

RestInit ==
    /\ pf \in [ stage : {"args"}, hydrostatic : {TRUE}, n_split : {1},
                delp : {Fin(1), Fin(1000)}, pkc : PkcFields, gz : GzFields,
                uc : {Fin(0)}, uc_east : {Fin(0)},
                vc : {Fin(0)}, vc_north : {Fin(0)},
                q_x_flux : {Fin(0)}, q_x_flux_east : {Fin(0)},
                q_y_flux : {Fin(0)}, q_y_flux_north : {Fin(0)},
                delp_after : {Fin(0)} ]
    /\ fvt = None
    /\ SchedParked
    /\ CallsParked
    /\ MeshParked

\* the sub-step of __call__ from p_grad_c to the end of the D-grid update,
\* for delp
RestSubStep ==
    /\ pf.stage = "args"
    /\ LET h == pf.hydrostatic
           uc == PGradC(h, pf.uc, pf.pkc, pf.gz, pf.delp, "W", "C")
           uce == PGradC(h, pf.uc_east, pf.pkc, pf.gz, pf.delp, "C", "E")
           vc == PGradC(h, pf.vc, pf.pkc, pf.gz, pf.delp, "S", "C")
           vcn == PGradC(h, pf.vc_north, pf.pkc, pf.gz, pf.delp, "C", "N")
           m == AdvectedMean(pf.delp)
           gx == FinalFlux(m, m, DswUnitFlux(uc))
           gxe == FinalFlux(m, m, DswUnitFlux(uce))
           gy == FinalFlux(m, m, DswUnitFlux(vc))
           gyn == FinalFlux(m, m, DswUnitFlux(vcn))
       IN  pf' = [pf EXCEPT
                    !.stage = "returned",
                    !.uc = uc, !.uc_east = uce, !.vc = vc, !.vc_north = vcn,
                    !.q_x_flux = gx, !.q_x_flux_east = gxe,
                    !.q_y_flux = gy, !.q_y_flux_north = gyn,
                    !.delp_after =
                        ApplyDelpFluxes(pf.delp, gx, gxe, gy, gyn, Fin(1))]
    /\ UNCHANGED <<schedVars, fvt, tmp_heat_source, seen, mesh>>

RestNext == RestSubStep

SpecRest == RestInit /\ [][RestNext]_vars

\* C17: with n_split = 1, hydrostatic, constant delp and zero winds, after the
\* one sub-step the transport fluxes q_x_flux and q_y_flux are exactly zero
\* on every face and delp is unchanged.
C17_RestStaysAtRest ==
    (pf.stage = "returned" /\ pf.hydrostatic /\ pf.n_split = 1) =>
        /\ IsZero(pf.q_x_flux) /\ IsZero(pf.q_x_flux_east)
        /\ IsZero(pf.q_y_flux) /\ IsZero(pf.q_y_flux_north)
        /\ FEq(pf.delp_after, pf.delp)

(***************************************************************************)
(* SpecDiv: the flux-divergence update of a scalar on a closed periodic    *)
(* grid of NX by NY cells: the face east of the last column is the first   *)
(* column's west face, and likewise to the north.  Values are integers,    *)
(* so sums are exact.                                                      *)
(***************************************************************************)
NX == 2

NY == 2

Grid == (1..NX) \X (1..NY)

\* offset [1, 0, 0] on the periodic grid
East(p) == <<(p[1] % NX) + 1, p[2]>>

\* offset [0, 1, 0] on the periodic grid
North(p) == <<p[1], (p[2] % NY) + 1>>

apply_x_flux_divergence_adds_both(q, q_x_flux) ==
    [p \in Grid |-> q[p] + q_x_flux[p] + q_x_flux[East(p)]]

\* q + q_x_flux - q_x_flux[1, 0, 0]
apply_x_flux_divergence(q, q_x_flux) ==
    [p \in Grid |-> q[p] + q_x_flux[p] - q_x_flux[East(p)]]

\* q + q_y_flux - q_y_flux[0, 1, 0]
apply_y_flux_divergence(q, q_y_flux) ==
    [p \in Grid |-> q[p] + q_y_flux[p] - q_y_flux[North(p)]]

RECURSIVE SumOver(_, _)
SumOver(cells, q) ==
    IF cells = {} THEN 0
    ELSE LET p == CHOOSE c \in cells : TRUE
         IN  q[p] + SumOver(cells \ {p}, q)

GlobalSum(q) == SumOver(Grid, q)

\* the scalar before the update: uniform, or different in every cell
ScalarFields ==
    { [p \in Grid |-> 1000], [p \in Grid |-> p[1] + NX * (p[2] - 1)] }

DivInit ==
    /\ pf \in [ stage : {"args"}, q : ScalarFields,
                q_x_flux : [Grid -> {0, 1}], q_y_flux : [Grid -> {0, 1}],
                q_after : {[p \in Grid |-> 0]} ]
    /\ fvt = None
    /\ SchedParked
    /\ CallsParked
    /\ MeshParked

\* q = q + gx - gx[1, 0, 0] + gy - gy[0, 1, 0] in every cell
ApplyFluxes ==
    /\ pf.stage = "args"
    /\ pf' = [pf EXCEPT
                !.stage = "returned",
                !.q_after =
                    apply_y_flux_divergence(
                        apply_x_flux_divergence(pf.q, pf.q_x_flux),
                        pf.q_y_flux)]
    /\ UNCHANGED <<schedVars, fvt, tmp_heat_source, seen, mesh>>

DivNext == ApplyFluxes

SpecDiv == DivInit /\ [][DivNext]_vars

\* C18: on a closed periodic domain with no damping, the flux-divergence
\* update q + fx[i] - fx[i+1] + fy[j] - fy[j+1] leaves the global sum of q
\* unchanged, whatever the flux fields are.
C18_FluxDivergenceConserves ==
    pf.stage = "returned" => GlobalSum(pf.q_after) = GlobalSum(pf.q)

\* an update that changed q in some cell, by fluxes that differ from face to
\* face in both directions
C18_Witness ==
    /\ pf.stage = "returned"
    /\ \E p \in Grid : pf.q_after[p] > pf.q[p]
    /\ \E p \in Grid : pf.q_after[p] < pf.q[p]
    /\ \E p \in Grid : pf.q_x_flux[p] # pf.q_x_flux[East(p)]
    /\ \E p \in Grid : pf.q_y_flux[p] # pf.q_y_flux[North(p)]

(***************************************************************************)
(* SpecRanks: NRanks ranks, each a neighbour of every other, each with its *)
(* own scheduler built from the same configuration, run calls with         *)
(* n_map = 1 at their own speed.  The exchange service is outside the      *)
(* repository: start() hands the service the current interior values of    *)
(* the handle's fields for every neighbour, wait() blocks until the values *)
(* of every neighbour for this handle have arrived and puts them in the    *)
(* halo; between two ranks the values of one handle arrive in the order    *)
(* they were sent.  An interior value names the rank that owns it and the  *)
(* number of times the field has been written there.  A rank whose call    *)
(* raises stops.                                                           *)
(***************************************************************************)
NRanks == 2

MaxRankCalls == 2

MaxRankNSplit == 2

Ranks == 1..NRanks

Others(r) == Ranks \ {r}

Links == {l \in Ranks \X Ranks \X Handles : l[1] # l[2]}

RankConfigs ==
    {c \in Configs : /\ Accepted(c) /\ c.square /\ c.k_split = 1
                     /\ ~c.use_old_omega /\ ~c.breed_vortex_inline
                     /\ c.d_con > 0 /\ c.grid_type = 0
                     /\ c.d_grid_shallow_water.vtdm4 = 0
                     /\ c.n_split <= MaxRankNSplit
                     /\ c.hydrostatic \/ c.rf_fast}

\* the interior value of a field on rank r after ver writes
Value(r, ver) == [rank |-> r, ver |-> ver]

NoValue == Value(0, 0)

NewRank ==
    [ phase |-> "ready", call |-> 0, pc |-> 0,
      val |-> [f \in ExchangedFields |-> 0],
      halo |-> [n \in Ranks |-> [f \in ExchangedFields |-> NoValue]],
      last |-> [call |-> 0, pc |-> 0] ]

\* the positions of a call at which a stage writes field f
WritePositions(seq, f) ==
    {k \in 1..Len(seq) :
        seq[k].k = "stage" /\ f \in StageWrites(seq[k].n, TRUE)}

RanksInit ==
    /\ cfg \in RankConfigs
    /\ created = CreatedBy(CtorSteps(cfg))
    /\ nk_heat_dissipation =
          get_nk_heat_dissipation(cfg.d_grid_shallow_water, cfg.npz)
    /\ do_del2cubed = DoDel2Cubed(nk_heat_dissipation, cfg.d_con)
    /\ n_map = 1
    /\ ops = CallOps(cfg, do_del2cubed, n_map)
    /\ phase = "parked"
    /\ pc = 0
    /\ inflight = {}
    /\ halo = AllStale
    /\ written = {}
    /\ count = NoCounts
    /\ err = None
    /\ adjusted = {}
    /\ dp_ref_runs = << >>
    /\ mesh = [rk |-> [r \in Ranks |-> NewRank],
               chan |-> [l \in Links |-> << >>],
               writes |-> [f \in ExchangedFields |-> WritePositions(ops, f)]]
    /\ pf = None
    /\ fvt = None
    /\ CallsParked

Rk(r) == mesh.rk[r]

RankRunning(r) == Rk(r).phase = "running" /\ Rk(r).pc <= Len(ops)

RankOp(r) == ops[Rk(r).pc]

RankCanRun(r, kinds) ==
    /\ RankRunning(r)
    /\ RankOp(r).k \in kinds
    /\ OpError(cfg, created, RankOp(r)) = None

\* entry of __call__ on rank r; the caller has changed the state since the
\* last call
RankCallBegin(r) ==
    /\ Rk(r).phase = "ready"
    /\ Rk(r).call < MaxRankCalls
    /\ mesh' = [mesh EXCEPT
                  !.rk[r] = [@ EXCEPT
                               !.phase = "running", !.call = @ + 1, !.pc = 1,
                               !.val = [f \in ExchangedFields |-> @[f] + 1]]]
    /\ UNCHANGED <<schedVars, pf, fvt, tmp_heat_source, seen>>

\* _WrappedHaloUpdater.start on rank r
RankStart(r) ==
    /\ RankCanRun(r, {"start"})
    /\ LET h == RankOp(r).n
           snap == [f \in HandleFields(h) |-> Value(r, Rk(r).val[f])]
       IN  mesh' =
             [ rk |-> [mesh.rk EXCEPT ![r].pc = @ + 1],
               writes |-> mesh.writes,
               chan |-> [l \in Links |->
                           IF l[1] = r /\ l[3] = h
                           THEN Append(mesh.chan[l], snap)
                           ELSE mesh.chan[l]] ]
    /\ UNCHANGED <<schedVars, pf, fvt, tmp_heat_source, seen>>

\* _WrappedHaloUpdater.wait on rank r returns
RankWait(r) ==
    /\ RankCanRun(r, {"wait"})
    /\ LET h == RankOp(r).n
       IN  /\ \A n \in Others(r) : mesh.chan[<<n, r, h>>] # << >>
           /\ mesh' =
                [ rk |-> [mesh.rk EXCEPT
                            ![r] = [@ EXCEPT
                                      !.pc = @ + 1,
                                      !.last = [call |-> Rk(r).call,
                                                pc |-> Rk(r).pc],
                                      !.halo =
                                         [n \in Ranks |->
                                            [f \in ExchangedFields |->
                                               IF n # r /\ f \in HandleFields(h)
                                               THEN Head(mesh.chan[<<n, r, h>>])[f]
                                               ELSE Rk(r).halo[n][f]]]]],
                  writes |-> mesh.writes,
                  chan |-> [l \in Links |->
                              IF l[2] = r /\ l[3] = h
                              THEN Tail(mesh.chan[l])
                              ELSE mesh.chan[l]] ]
    /\ UNCHANGED <<schedVars, pf, fvt, tmp_heat_source, seen>>

\* a stencil, a solver or an update class runs on rank r
RankStage(r) ==
    /\ RankCanRun(r, {"stage"})
    /\ mesh' = [mesh EXCEPT
                  !.rk[r] = [@ EXCEPT
                               !.pc = @ + 1,
                               !.val = [f \in ExchangedFields |->
                                          IF Rk(r).pc \in mesh.writes[f]
                                          THEN @[f] + 1
                                          ELSE @[f]]]]
    /\ UNCHANGED <<schedVars, pf, fvt, tmp_heat_source, seen>>

\* the attachment of the temporaries, or the interface synchronisation
RankLocal(r) ==
    /\ RankCanRun(r, {"attach", "interface"})
    /\ mesh' = [mesh EXCEPT !.rk[r].pc = @ + 1]
    /\ UNCHANGED <<schedVars, pf, fvt, tmp_heat_source, seen>>

\* the next operation of rank r raises
RankRaise(r) ==
    /\ RankRunning(r)
    /\ OpError(cfg, created, RankOp(r)) # None
    /\ mesh' = [mesh EXCEPT !.rk[r].phase = "raised"]
    /\ UNCHANGED <<schedVars, pf, fvt, tmp_heat_source, seen>>

\* the call of rank r returns
RankReturn(r) ==
    /\ Rk(r).phase = "running"
    /\ Rk(r).pc > Len(ops)
    /\ mesh' = [mesh EXCEPT !.rk[r].phase = "ready"]
    /\ UNCHANGED <<schedVars, pf, fvt, tmp_heat_source, seen>>

RanksNext ==
    \E r \in Ranks :
        \/ RankCallBegin(r)
        \/ RankStart(r)
        \/ RankWait(r)
        \/ RankStage(r)
        \/ RankLocal(r)
        \/ RankRaise(r)
        \/ RankReturn(r)

SpecRanks == RanksInit /\ [][RanksNext]_vars

\* the start that the wait at position j of a call completes
MatchingStart(j) ==
    LET before == {i \in 1..(j - 1) :
                      ops[i].k = "start" /\ ops[i].n = ops[j].n}
    IN  CHOOSE i \in before : \A k \in before : k <= i

\* how often the stages before position i of a call write field f
WritesBefore(i, f) == Cardinality({k \in mesh.writes[f] : k < i})

\* the interior value of field f that rank n holds when it is at position i
\* of its call number c: the caller has changed it c times and the stages
\* of c - 1 whole calls and of the call so far have written it
HeldAt(n, c, i, f) ==
    Value(n, c + (c - 1) * WritesBefore(Len(ops) + 1, f) + WritesBefore(i, f))

\* C19: when a rank returns from the wait of an exchange, the halo it holds
\* from each neighbour has, in every field of that exchange, the interior
\* value the neighbour had when it started the same exchange of the same
\* sub-step of the same call, however far ahead or behind the neighbour is.
C19_HaloMatchesNeighbour ==
    \A r \in Ranks :
        LET w == Rk(r).last
        IN  w.pc > 0 =>
              \A n \in Others(r) :
                 \A f \in HandleFields(ops[w.pc].n) :
                    Rk(r).halo[n][f] =
                       HeldAt(n, w.call, MatchingStart(w.pc), f)

\* rank 1 has received the u, v halo of sub-step 1 of its last call while
\* rank 2, two sub-steps into the same call, has not reached that wait
C19_Witness ==
    /\ Rk(1).last.call = MaxRankCalls
    /\ ops[Rk(1).last.pc] = Wait("u__v", 1)
    /\ Rk(2).call = MaxRankCalls
    /\ Rk(2).pc < Rk(1).last.pc
    /\ Rk(1).halo[2]["u"].rank = 2

(***************************************************************************)
(* SpecLayout: test_dycore_runs_one_step.  Every rank of a LAYOUT by       *)
(* LAYOUT decomposition of a tile builds the dynamical core and runs one   *)
(* step with n_map = 1.  A rank is given by its position in the tile; its  *)
(* sub-domain is square.  The height update on the D grid and the D-grid   *)
(* update build their transport operators in the constructor of the        *)
(* scheduler, with the orders hord_tm and hord_dp of the configuration.    *)
(***************************************************************************)
LAYOUT == 3

\* grid_indexing.tile_interior: the sub-domain touches no edge of the tile
TileInterior(x, y) ==
    /\ 0 < x /\ x < LAYOUT - 1
    /\ 0 < y /\ y < LAYOUT - 1

\* the configurations of the test, with the flags it leaves at their
\* defaults drawn
LayoutConfigs ==
    {c \in Configs : /\ Accepted(c) /\ ~c.hydrostatic /\ c.rf_fast
                     /\ c.nord = 3 /\ c.n_split = 1 /\ c.k_split = 1
                     /\ c.square /\ c.d_con > 0}

\* the orders of the transport operators that AcousticDynamics.__init__
\* has its components build, in the order it builds them
TransportOrders(c, hord_tm, hord_dp) ==
    When(~c.hydrostatic, << hord_tm >>) \o << hord_dp >>

\* the exception of the first transport operator that cannot be built
BuildError(tile_interior, hords) ==
    IF \E i \in 1..Len(hords) :
          StencilsFor(tile_interior, hords[i]) = "AssertionError"
    THEN "AssertionError"
    ELSE None

LayoutInit ==
    /\ pf \in [ stage : {"args"}, config : LayoutConfigs,
                x : 0..(LAYOUT - 1), y : 0..(LAYOUT - 1),
                hord_tm : {6, 8}, hord_dp : {5, 6, 8, 10},
                built : {FALSE}, raised : {None} ]
    /\ fvt = None
    /\ SchedParked
    /\ CallsParked
    /\ MeshParked

\* setup_dycore() and dycore.step_dynamics(*args) on one rank
RunOneStep ==
    /\ pf.stage = "args"
    /\ LET c == pf.config
           steps == CtorSteps(c)
           made == CreatedBy(steps)
           nk == get_nk_heat_dissipation(c.d_grid_shallow_water, c.npz)
           e == IF FirstFailure(steps) # 0 THEN "AssertionError"
                ELSE BuildError(TileInterior(pf.x, pf.y),
                                TransportOrders(c, pf.hord_tm, pf.hord_dp))
       IN  pf' = [pf EXCEPT
                    !.stage = "returned",
                    !.built = (e = None),
                    !.raised =
                        IF e # None THEN e
                        ELSE Raised(c, made,
                                    CallOps(c, DoDel2Cubed(nk, c.d_con), 1))]
    /\ UNCHANGED <<schedVars, fvt, tmp_heat_source, seen, mesh>>

LayoutNext == RunOneStep

SpecLayout == LayoutInit /\ [][LayoutNext]_vars

\* C20: for the nonhydrostatic configuration of the test with transport
\* orders other than 8, on every rank of the 3x3 layout, the interior one
\* included, building the dynamical core and running one step complete
\* without raising.
C20_RunsOnEveryRank ==
    (pf.stage = "returned" /\ pf.hord_tm # 8 /\ pf.hord_dp # 8) =>
        pf.built /\ pf.raised = None

(***************************************************************************)
(* SpecBind: which storage object every attribute of a state object names. *)
(* The scheduler is built with initial_state; calls are then made with     *)
(* initial_state or with another state object, with update_temporaries     *)
(* set or not.  A state object arrives from the initializer with its own   *)
(* storage for every prognostic field, and with or without storage of its  *)
(* own under the names of the temporaries.  The scheduler allocates one    *)
(* buffer per temporary at construction.                                   *)
(***************************************************************************)
MaxBindCalls == 2

StateObjects == {"initial_state", "other_state"}

Storage(owner, f) == [owner |-> owner, name |-> f]

\* the attribute does not exist: reading it raises AttributeError
Missing(f) == Storage("nobody", f)

\* delpc and ptc are attributes of the scheduler, not of the state
SchedulerNames == {"delpc", "ptc"}

\* the attributes of state that a call dereferences
StateNames ==
    (UNION {StageReads(s) \cup StageWrites(s, TRUE) : s \in StageNames}
       \cup ExchangedFields \cup TemporaryNames) \ SchedulerNames

NewState(obj, own_temporaries) ==
    [f \in StateNames |->
        IF f \in TemporaryNames /\ ~own_temporaries
        THEN Missing(f)
        ELSE Storage(obj, f)]

AttachTemporariesAlways(attrs, update_temporaries) ==
    [f \in StateNames |->
        IF f \in TemporaryNames THEN Storage("scheduler", f) ELSE attrs[f]]

\* if update_temporaries: state.__dict__.update(self._temporaries)
AttachTemporaries(attrs, update_temporaries) ==
    [f \in StateNames |->
        IF update_temporaries /\ f \in TemporaryNames
        THEN Storage("scheduler", f)
        ELSE attrs[f]]

\* what _WrappedHaloUpdater.start and interface hand to the exchange service:
\* the attributes of self._state, the object given at construction; next to
\* each, the attribute of the same name of the state passed to the call
StartArguments(h) ==
    {[name |-> f, storage |-> pf.attrs["initial_state"][f],
      passed |-> pf.attrs[pf.state][f]] : f \in HandleFields(h)}

\* the attributes of the state passed to the call that a stage is given
StageArguments(s) ==
    {pf.attrs[pf.state][f] :
        f \in (StageReads(s) \cup StageWrites(s, TRUE)) \ SchedulerNames}

BindConfigs == {c \in RankConfigs : c.n_split = 1}

BindInit ==
    /\ cfg \in BindConfigs
    /\ created = CreatedBy(CtorSteps(cfg))
    /\ nk_heat_dissipation =
          get_nk_heat_dissipation(cfg.d_grid_shallow_water, cfg.npz)
    /\ do_del2cubed = DoDel2Cubed(nk_heat_dissipation, cfg.d_con)
    /\ n_map = 1
    /\ ops = CallOps(cfg, do_del2cubed, n_map)
    /\ phase = "parked"
    /\ pc = 0
    /\ inflight = {}
    /\ halo = AllStale
    /\ written = {}
    /\ count = NoCounts
    /\ err = None
    /\ adjusted = {}
    /\ dp_ref_runs = << >>
    /\ \E own \in [StateObjects -> BOOLEAN] :
          pf = [ stage |-> "ready", calls |-> 0, pc |-> 0,
                 state |-> "initial_state", update_temporaries |-> TRUE,
                 attrs |-> [o \in StateObjects |-> NewState(o, own[o])],
                 before |-> [o \in StateObjects |-> NewState(o, own[o])],
                 exchanged |-> {}, result |-> "unset", error |-> None ]
    /\ fvt = None
    /\ CallsParked
    /\ MeshParked

BindRunning == pf.stage = "running" /\ pf.pc <= Len(ops)

BindOp == ops[pf.pc]

\* the exception the next operation raises, from the scheduler's side or
\* from an attribute that the state object does not have
BindError ==
    CASE OpError(cfg, created, BindOp) # None -> OpError(cfg, created, BindOp)
      [] /\ BindOp.k \in {"start", "interface"}
         /\ \E a \in StartArguments(BindOp.n) : a.storage.owner = "nobody" ->
            "AttributeError"
      [] /\ BindOp.k = "stage"
         /\ \E a \in StageArguments(BindOp.n) : a.owner = "nobody" ->
            "AttributeError"
      [] OTHER -> None

\* entry of __call__(state, n_map, update_temporaries)
BindCallBegin ==
    /\ pf.stage \in {"ready", "returned"}
    /\ pf.calls < MaxBindCalls
    /\ \E o \in StateObjects, u \in BOOLEAN :
          pf' = [pf EXCEPT !.stage = "running", !.calls = @ + 1, !.pc = 1,
                           !.state = o, !.update_temporaries = u,
                           !.before = pf.attrs, !.exchanged = {},
                           !.result = "unset"]
    /\ UNCHANGED <<schedVars, fvt, tmp_heat_source, seen, mesh>>

\* _WrappedHaloUpdater.start, _WrappedHaloUpdater.interface
BindExchange ==
    /\ BindRunning
    /\ BindOp.k \in {"start", "interface"}
    /\ BindError = None
    /\ pf' = [pf EXCEPT !.pc = @ + 1,
                        !.exchanged = @ \cup StartArguments(BindOp.n)]
    /\ UNCHANGED <<schedVars, fvt, tmp_heat_source, seen, mesh>>

\* _WrappedHaloUpdater.wait
BindWait ==
    /\ BindRunning
    /\ BindOp.k = "wait"
    /\ BindError = None
    /\ pf' = [pf EXCEPT !.pc = @ + 1]
    /\ UNCHANGED <<schedVars, fvt, tmp_heat_source, seen, mesh>>

\* the attachment of the temporaries to the state passed to the call
BindAttach ==
    /\ BindRunning
    /\ BindOp.k = "attach"
    /\ pf' = [pf EXCEPT
                !.pc = @ + 1,
                !.attrs[pf.state] =
                   AttachTemporaries(@, pf.update_temporaries)]
    /\ UNCHANGED <<schedVars, fvt, tmp_heat_source, seen, mesh>>

\* a stage is handed attributes of the state and writes into them in place
BindStage ==
    /\ BindRunning
    /\ BindOp.k = "stage"
    /\ BindError = None
    /\ pf' = [pf EXCEPT !.pc = @ + 1]
    /\ UNCHANGED <<schedVars, fvt, tmp_heat_source, seen, mesh>>

BindRaise ==
    /\ BindRunning
    /\ BindError # None
    /\ pf' = [pf EXCEPT !.stage = "raised", !.error = BindError]
    /\ UNCHANGED <<schedVars, fvt, tmp_heat_source, seen, mesh>>

\* __call__ has no return statement
BindReturn ==
    /\ pf.stage = "running"
    /\ pf.pc > Len(ops)
    /\ pf' = [pf EXCEPT !.stage = "returned", !.result = "None"]
    /\ UNCHANGED <<schedVars, fvt, tmp_heat_source, seen, mesh>>

BindNext ==
    \/ BindCallBegin
    \/ BindExchange
    \/ BindWait
    \/ BindAttach
    \/ BindStage
    \/ BindRaise
    \/ BindReturn

SpecBind == BindInit /\ [][BindNext]_vars

\* C21 (as amended): a call returns no value and rebinds no attribute of the
\* state it is passed other than the temporaries; with update_temporaries
\* set it binds every temporary name of that state to the scheduler's own
\* buffer, whatever the name was bound to before, and without it it rebinds
\* nothing; the attributes of any other state object are left alone.
C21_OnlyTemporariesRebound ==
    pf.stage \in {"running", "returned", "raised"} =>
       /\ \A o \in StateObjects \ {pf.state} : pf.attrs[o] = pf.before[o]
       /\ \A f \in StateNames \ TemporaryNames :
             pf.attrs[pf.state][f] = pf.before[pf.state][f]
       /\ \A f \in TemporaryNames :
             pf.attrs[pf.state][f] \in
                {pf.before[pf.state][f], Storage("scheduler", f)}
       /\ pf.stage = "returned" =>
             /\ pf.result = "None"
             /\ \A f \in TemporaryNames :
                   pf.attrs[pf.state][f] =
                      IF pf.update_temporaries
                      THEN Storage("scheduler", f)
                      ELSE pf.before[pf.state][f]

\* a call with update_temporaries has returned with the temporaries rebound,
\* and one without it has returned too
C21_Witness ==
    /\ pf.stage = "returned"
    /\ pf.update_temporaries
    /\ pf.before[pf.state]["gz"] = Storage(pf.state, "gz")
    /\ pf.attrs[pf.state]["gz"] = Storage("scheduler", "gz")
    /\ pf.attrs[pf.state]["delp"] = Storage(pf.state, "delp")

\* C21 (as claimed): after a call every attribute of the state names the
\* storage object it named before the call, and the call returned no value.
C21_NothingRebound ==
    pf.stage = "returned" =>
       /\ pf.result = "None"
       /\ pf.attrs[pf.state] = pf.before[pf.state]

\* C27: every storage object that an exchange of a call hands to the exchange
\* service is the one the state passed to that call holds under the same
\* name, which is what the stages of the call are given.
C27_ExchangesUseCallState ==
    \A e \in pf.exchanged : e.storage = e.passed

(***************************************************************************)
(* SpecPln: the savepoint test of PLNHalo.  The test imports the module,   *)
(* builds PLNHalo(stencil_factory) and calls the instance with pk3, delp   *)
(* and ptop.  The compute domain is nx by ny columns with PLN_RING + 1     *)
(* columns of halo on each side; delp is drawn per level, ptop is drawn,   *)
(* and pk3 starts as the value the savepoint holds.  A value of pk3 is     *)
(* either that old value or log of an interface pressure.                  *)
(***************************************************************************)
MaxPlnLevels == 2

MaxPlnValue == 3

MaxPlnSize == 2

PLN_RING == 2

\* the names bound in the module's namespace when the class body runs
PlnModuleNames ==
    {"FORWARD", "computation", "horizontal", "interval", "region", "log",
     "FloatField", "FloatFieldIJ", "float", "pln_halo"}

\* the names evaluated when the def statements of the module run: the
\* annotations of pln_halo, PLNHalo.__init__ and PLNHalo.__call_
PlnDefTimeNames == {"FloatFieldIJ", "float", "FloatField", "StencilFactory"}

\* the names PLNHalo.__init__ looks up in the module's namespace
PlnInitNames == {"pln_halo", "utils"}

\* the methods PLNHalo.__init__ calls on grid_indexing
PlnGridIndexingCalls ==
    {"origin_full", "domain_full", "axis_offsets", "domain_fill"}

\* the methods of grid_indexing that the scheduler and the transport
\* operator use
GridIndexingMethods ==
    {"axis_offsets", "domain_compute", "domain_full", "get_origin_domain",
     "get_quantity_halo_spec", "origin_compute", "origin_full",
     "restrict_vertical"}

\* the methods the class statement of PLNHalo defines
PlnMethods == {"__init__", "__call_"}

\* the parameters of pln_halo in order, with their annotated types
PlnParameters ==
    << [name |-> "pet", type |-> "FloatFieldIJ"],
       [name |-> "ptop", type |-> "float"],
       [name |-> "pk3", type |-> "FloatField"],
       [name |-> "delp", type |-> "FloatField"] >>

\* the positional arguments of self._pln_halo(...) in PLNHalo.__call_
PlnArguments ==
    << [name |-> "pet", type |-> "FloatFieldIJ"],
       [name |-> "delp", type |-> "FloatField"],
       [name |-> "pk3", type |-> "FloatField"],
       [name |-> "ptop", type |-> "float"] >>

\* the argument that reaches the parameter called p
PlnBound(p) ==
    LET i == CHOOSE k \in 1..Len(PlnParameters) : PlnParameters[k].name = p
    IN  PlnArguments[i]

\* the horizontal regions of both intervals of pln_halo, as index bounds
\* relative to the compute domain (1..nx, 1..ny), upper bounds inclusive;
\* axes is the number of comma-separated entries between the brackets
PlnRegions(nx, ny) ==
    << [axes |-> 2, i |-> (1 - PLN_RING)..0, j |-> 1..ny],
       [axes |-> 2, i |-> (nx + 1)..(nx + PLN_RING), j |-> 1..ny],
       [axes |-> 2, i |-> (1 - PLN_RING)..(nx + PLN_RING),
        j |-> (1 - PLN_RING)..0],
       [axes |-> 3, i |-> (1 - PLN_RING)..(nx + PLN_RING),
        j |-> {ny + 1}] >>

PlnColumns(nx, ny) ==
    ((0 - PLN_RING)..(nx + PLN_RING + 1))
       \X ((0 - PLN_RING)..(ny + PLN_RING + 1))

\* the 2-cell-wide ring around the compute domain
PlnRing(nx, ny) ==
    {c \in PlnColumns(nx, ny) :
        /\ c[1] \in (1 - PLN_RING)..(nx + PLN_RING)
        /\ c[2] \in (1 - PLN_RING)..(ny + PLN_RING)
        /\ ~(c[1] \in 1..nx /\ c[2] \in 1..ny)}

InPlnRegions(regions, c) ==
    \E r \in 1..Len(regions) : c[1] \in regions[r].i /\ c[2] \in regions[r].j

OldPk3 == [fn |-> "savepoint", of |-> 0]

Log(x) == [fn |-> "log", of |-> x]

\* pet of a column after the FORWARD computation has reached interface k:
\* pet = ptop at interval(0, 1), pet = pet + delp[0, 0, -1] below
RECURSIVE Pet(_, _, _)
Pet(ptop, delp, k) ==
    IF k = 0 THEN ptop ELSE Pet(ptop, delp, k - 1) + delp[k]

\* the stencil applied with its parameters bound to ptop, pk3 and delp:
\* pk3 = log(pet) in interval(1, None) inside the regions
PlnHaloStencil(regions, cols, nk, ptop, pk3, delp) ==
    [c \in cols |->
       [k \in 0..nk |->
          IF k >= 1 /\ InPlnRegions(regions, c)
          THEN Log(Pet(ptop, delp, k))
          ELSE pk3[c][k]]]

\* what the test does, in order, with the exception each step raises when
\* what it needs is not there
PlnSteps(nx, ny) ==
    << [step |-> "import",
        ok |-> PlnDefTimeNames \subseteq PlnModuleNames,
        error |-> "NameError"],
       [step |-> "PLNHalo(stencil_factory)",
        ok |-> /\ PlnInitNames \subseteq PlnModuleNames
               /\ PlnGridIndexingCalls \subseteq GridIndexingMethods
               /\ \A r \in 1..Len(PlnRegions(nx, ny)) :
                     PlnRegions(nx, ny)[r].axes = 2,
        error |-> "NameError"],
       [step |-> "compute_func(pk3, delp, ptop)",
        ok |-> "__call__" \in PlnMethods,
        error |-> "TypeError"],
       [step |-> "self._pln_halo(self._pet_tmp, delp, pk3, ptop)",
        ok |-> \A i \in 1..Len(PlnParameters) :
                  PlnParameters[i].type = PlnArguments[i].type,
        error |-> "TypeError"] >>

PlnFailure(steps) ==
    IF \A i \in 1..Len(steps) : steps[i].ok
    THEN 0
    ELSE CHOOSE i \in 1..Len(steps) :
            ~steps[i].ok /\ \A j \in 1..(i - 1) : steps[j].ok

PlnInit ==
    /\ SchedParked
    /\ fvt = None
    /\ CallsParked
    /\ MeshParked
    /\ \E nx \in 1..MaxPlnSize, ny \in 1..MaxPlnSize,
          ptop \in 1..MaxPlnValue,
          delp \in [1..MaxPlnLevels -> 1..MaxPlnValue] :
          pf = [ stage |-> "args", nx |-> nx, ny |-> ny, ptop |-> ptop,
                 delp |-> delp,
                 pk3 |-> [c \in PlnColumns(nx, ny) |->
                            [k \in 0..MaxPlnLevels |-> OldPk3]],
                 error |-> None ]

\* TranslatePLN_Halo: import, construct, call
RunPlnTest ==
    /\ pf.stage = "args"
    /\ LET steps == PlnSteps(pf.nx, pf.ny)
           f == PlnFailure(steps)
       IN  pf' = [pf EXCEPT
                    !.stage = "returned",
                    !.error = IF f = 0 THEN None ELSE steps[f].error,
                    !.pk3 = IF f = 0
                            THEN PlnHaloStencil(PlnRegions(pf.nx, pf.ny),
                                                PlnColumns(pf.nx, pf.ny),
                                                MaxPlnLevels, pf.ptop,
                                                pf.pk3, pf.delp)
                            ELSE pf.pk3]
    /\ UNCHANGED <<schedVars, fvt, tmp_heat_source, seen, mesh>>

PlnNext == RunPlnTest

SpecPln == PlnInit /\ [][PlnNext]_vars

\* C22: after the test's call, in every column of the 2-cell-wide ring
\* around the compute domain pk3(k) = log(ptop + delp(0) + ... + delp(k-1))
\* for every interface k >= 1, pk3 is unchanged inside the compute domain,
\* and each of pk3, delp and ptop has reached the stencil parameter of its
\* own name.
C22_PlnHaloRing ==
    pf.stage = "returned" =>
       /\ pf.error = None
       /\ \A p \in {"pk3", "delp", "ptop"} : PlnBound(p).name = p
       /\ \A c \in PlnRing(pf.nx, pf.ny), k \in 1..MaxPlnLevels :
             pf.pk3[c][k] = Log(Pet(pf.ptop, pf.delp, k))
       /\ \A c \in (1..pf.nx) \X (1..pf.ny), k \in 0..MaxPlnLevels :
             pf.pk3[c][k] = OldPk3

(***************************************************************************)
(* Further properties of Spec: the order of the stages and of the          *)
(* exchanges inside a sub-step.  count[s] is the number of times stage s   *)
(* has run in the current call, so a stage about to run in sub-step it     *)
(* has run it times before when it runs once per sub-step.                 *)
(***************************************************************************)
NextStageIs(s) == StageNext /\ NextOp.n = s

\* C23: in every sub-step the C-grid update runs first, then (nonhydrostatic
\* only) the C-grid height update and Vertical Solver C, then the
\* pressure-gradient completion stencil, then the D-grid update, each once
\* per sub-step; Vertical Solver C and Vertical Solver D never run in
\* hydrostatic mode.
C23_StageOrderInSubStep ==
    /\ NextStageIs("c_sw") =>
          /\ count["c_sw"] = NextOp.it
          /\ count["d_sw"] = NextOp.it
    /\ NextStageIs("update_geopotential_height_on_c_grid") =>
          /\ ~cfg.hydrostatic
          /\ count["c_sw"] = NextOp.it + 1
          /\ count["update_geopotential_height_on_c_grid"] = NextOp.it
    /\ NextStageIs("riem_solver_c") =>
          /\ ~cfg.hydrostatic
          /\ count["update_geopotential_height_on_c_grid"] = NextOp.it + 1
          /\ count["riem_solver_c"] = NextOp.it
    /\ NextStageIs("p_grad_c") =>
          /\ count["c_sw"] = NextOp.it + 1
          /\ ~cfg.hydrostatic => count["riem_solver_c"] = NextOp.it + 1
          /\ count["p_grad_c"] = NextOp.it
    /\ NextStageIs("d_sw") =>
          /\ count["p_grad_c"] = NextOp.it + 1
          /\ count["d_sw"] = NextOp.it
    /\ NextStageIs("riem_solver3") => ~cfg.hydrostatic
    /\ cfg.hydrostatic =>
          /\ count["update_geopotential_height_on_c_grid"] = 0
          /\ count["riem_solver_c"] = 0
          /\ count["riem_solver3"] = 0
    /\ Returned =>
          /\ count["c_sw"] = cfg.n_split
          /\ count["p_grad_c"] = cfg.n_split
          /\ count["d_sw"] = cfg.n_split
          /\ count["riem_solver_c"] =
                IF cfg.hydrostatic THEN 0 ELSE cfg.n_split

\* the D-grid update of the second sub-step of a nonhydrostatic call is
\* about to run, after two C-grid solves
C23_Witness ==
    /\ NextStageIs("d_sw")
    /\ NextOp.it = 1
    /\ ~cfg.hydrostatic
    /\ count["riem_solver_c"] = 2
    /\ count["p_grad_c"] = 2

NextExchangeIs(kind, h) == Running /\ NextOp.k = kind /\ NextOp.n = h

\* the operation that ran last in the current call
LastOp == ops[pc - 1]

\* C24: the combined delp, pt, q_con exchange is started right after the
\* D-grid update and waited before any other operation of the sub-step;
\* then, in nonhydrostatic mode only, the D-grid height update, Vertical
\* Solver D, the starts of the zh and pkc exchanges, the wait on zh, the
\* geopotential computed from zh, the wait on pkc and the nonhydrostatic
\* pressure-gradient correction follow in this order.
C24_DGridTailOrder ==
    /\ NextExchangeIs("start", "delp__pt__q_con") =>
          /\ LastOp = Stage("d_sw", NextOp.it)
          /\ count["d_sw"] = NextOp.it + 1
    /\ (Running /\ "delp__pt__q_con" \in inflight) =>
          /\ NextOp = Wait("delp__pt__q_con", LastOp.it)
          /\ LastOp = Start("delp__pt__q_con", NextOp.it)
    /\ (Running /\ pc > 1 /\ LastOp.k = "stage" /\ LastOp.n = "d_sw") =>
          NextOp = Start("delp__pt__q_con", LastOp.it)
    /\ HandleFields("delp__pt__q_con") = {"delp", "pt", "q_con"}
    /\ NextStageIs("update_height_on_d_grid") =>
          /\ ~cfg.hydrostatic
          /\ LastOp = Wait("delp__pt__q_con", NextOp.it)
          /\ count["update_height_on_d_grid"] = NextOp.it
    /\ NextStageIs("riem_solver3") =>
          /\ count["update_height_on_d_grid"] = NextOp.it + 1
          /\ count["riem_solver3"] = NextOp.it
    /\ NextExchangeIs("start", "zh") =>
          /\ ~cfg.hydrostatic
          /\ count["riem_solver3"] = NextOp.it + 1
          /\ "pkc" \notin inflight
    /\ NextExchangeIs("start", "pkc") =>
          /\ ~cfg.hydrostatic
          /\ count["riem_solver3"] = NextOp.it + 1
          /\ "zh" \in inflight
    /\ NextExchangeIs("wait", "zh") => {"zh", "pkc"} \subseteq inflight
    /\ NextStageIs("compute_geopotential") =>
          /\ StageReads("compute_geopotential") = {"zh"}
          /\ "zh" \notin inflight
          /\ "pkc" \in inflight
          /\ count["riem_solver3"] = NextOp.it + 1
          /\ count["compute_geopotential"] = NextOp.it
    /\ NextExchangeIs("wait", "pkc") =>
          count["compute_geopotential"] = NextOp.it + 1
    /\ NextStageIs("nonhydrostatic_pressure_gradient") =>
          /\ ~cfg.hydrostatic
          /\ "pkc" \notin inflight
          /\ count["compute_geopotential"] = NextOp.it + 1
          /\ count["nonhydrostatic_pressure_gradient"] = NextOp.it
    /\ cfg.hydrostatic =>
          /\ inflight \cap {"zh", "pkc"} = {}
          /\ count["update_height_on_d_grid"] = 0
          /\ count["compute_geopotential"] = 0
          /\ count["nonhydrostatic_pressure_gradient"] = 0

\* the pressure-gradient correction of the second sub-step is about to run
\* after both waits
C24_Witness ==
    /\ NextStageIs("nonhydrostatic_pressure_gradient")
    /\ NextOp.it = 1
    /\ count["compute_geopotential"] = 2
    /\ count["riem_solver3"] = 2
    /\ LastOp = Wait("pkc", 1)

\* C25: in a call every wait is issued on a handle that has an exchange in
\* flight and every start on a handle that has none, so each handle
\* alternates start and wait; when the call returns, and between calls, no
\* exchange is in flight.
C25_StartWaitAlternate ==
    /\ (Running /\ NextOp.k = "wait") => NextOp.n \in inflight
    /\ (Running /\ NextOp.k = "start") => NextOp.n \notin inflight
    /\ phase = "ready" => inflight = {}
    /\ inflight \subseteq Handles

\* the u/v exchange, waited in the first sub-step, is about to be started
\* again at its end while the other handles are idle
C25_Witness ==
    /\ NextExchangeIs("start", "u__v")
    /\ NextOp.it = 0
    /\ count["d_sw"] = 1
    /\ ~cfg.hydrostatic
    /\ cfg.nord > 0
    /\ inflight = {}

(***************************************************************************)
(* SpecRanksLive: the ranks of SpecRanks, where every rank makes its calls *)
(* and a rank that can take a step of its call eventually takes it: a      *)
(* start, a stage, a raise or a return is always possible, and a wait is   *)
(* possible from the moment every neighbour has issued the matching start  *)
(* and stays possible until it is taken.                                   *)
(***************************************************************************)
RankProgress(r) ==
    \/ RankStart(r)
    \/ RankWait(r)
    \/ RankStage(r)
    \/ RankLocal(r)
    \/ RankRaise(r)
    \/ RankReturn(r)

SpecRanksLive ==
    /\ RanksInit
    /\ [][RanksNext]_vars
    /\ \A r \in Ranks : WF_vars(RankCallBegin(r)) /\ WF_vars(RankProgress(r))

\* C26: every rank that has entered the call completes it.
C26_AllRanksComplete ==
    \A r \in Ranks : (Rk(r).phase = "running") ~> (Rk(r).phase = "ready")

\* C28: whatever the shape of the sub-domain, every start and wait that a
\* call issues is accepted by its handle: each handle, pkc included, is one
\* whose start() and wait() take no argument.
C28_EveryHandleTakesNoArgument ==
    /\ Constructed => \A h \in Handles : IsWrapped(cfg, h)
    /\ (Running /\ NextOp.k \in {"start", "wait"}) =>
          OpError(cfg, created, NextOp) = None
    /\ err # "TypeError"

(***************************************************************************)
(* SpecPem: the interface-pressure accumulation of a call.  The inputs are *)
(* the split counts, the remap step n_map of the call, use_old_omega, ptop *)
(* and one column of delp over MaxPemLevels levels (numbered from 0, the   *)
(* top); pem has one more entry than delp and starts at zero, as the       *)
(* scheduler allocates it.  The call runs its n_split sub-steps and        *)
(* applies set_pem where the code does.                                    *)
(***************************************************************************)
MaxPemLevels == 2

MaxPemValue == 2

\* pem at level k of the vertical domain of the stencil: ptop in
\* interval(0, 1), pem[0, 0, -1] + delp in interval(1, None)
RECURSIVE PemAt(_, _, _)
PemAt(delp, ptop, k) ==
    IF k = 0 THEN ptop ELSE PemAt(delp, ptop, k - 1) + delp[k]

\* self._set_pem: the stencil over domain_compute(add=(2, 2, 0)), whose
\* vertical extent is the number of levels nk
set_pem(delp, pem, ptop, nk) ==
    [k \in DOMAIN pem |-> IF k < nk THEN PemAt(delp, ptop, k) ELSE pem[k]]

\* the sub-steps it .. n_split - 1 of a call, as far as pem is concerned
RECURSIVE PemLoop(_, _, _)
PemLoop(p, it, end_step) ==
    IF it >= p.n_split
    THEN p
    ELSE PemLoop(
           IF it = p.n_split - 1 /\ end_step /\ p.use_old_omega
           THEN [p EXCEPT
                   !.pem = set_pem(p.delp, p.pem, p.ptop, MaxPemLevels),
                   !.ran = Append(@, it)]
           ELSE p,
           it + 1, end_step)

PemInit ==
    /\ SchedParked
    /\ fvt = None
    /\ CallsParked
    /\ MeshParked
    /\ \E n_split \in 1..MaxNSplit, k_split \in 1..MaxKSplit,
          use_old_omega \in BOOLEAN, ptop \in 1..MaxPemValue,
          delp \in [0..(MaxPemLevels - 1) -> 1..MaxPemValue] :
          \E nmap \in 1..k_split :
             pf = [ stage |-> "args", n_split |-> n_split,
                    k_split |-> k_split, n_map |-> nmap,
                    use_old_omega |-> use_old_omega, ptop |-> ptop,
                    delp |-> delp,
                    pem |-> [k \in 0..MaxPemLevels |-> 0],
                    end_step |-> FALSE, ran |-> << >> ]

\* __call__(state, n_map)
PemCall ==
    /\ pf.stage = "args"
    /\ LET end_step == EndStep(pf, pf.n_map)
       IN  pf' = [PemLoop(pf, 0, end_step) EXCEPT
                    !.stage = "returned", !.end_step = end_step]
    /\ UNCHANGED <<schedVars, fvt, tmp_heat_source, seen, mesh>>

PemNext == PemCall

SpecPem == PemInit /\ [][PemNext]_vars

\* C29: end_step is true exactly when n_map = k_split; set_pem runs at most
\* once per call, only in the last sub-step and only when end_step and
\* use_old_omega hold; where it has run, pem(0) = ptop and
\* pem(k) = pem(k-1) + delp(k-1) for every level k >= 1 of its domain.
C29_SetPemOnceAtEndStep ==
    pf.stage = "returned" =>
       /\ pf.end_step = (pf.n_map = pf.k_split)
       /\ Len(pf.ran) <= 1
       /\ pf.ran # << >> =>
             /\ pf.ran[1] = pf.n_split - 1
             /\ pf.end_step
             /\ pf.use_old_omega
             /\ pf.pem[0] = pf.ptop
             /\ \A k \in 1..(MaxPemLevels - 1) :
                   pf.pem[k] = pf.pem[k - 1] + pf.delp[k - 1]

\* C30: a scheduler that was constructed has use_logp false, its
\* configuration and its damping decision never change afterwards, and no
\* call reaches the raise of the unimplemented use_logp option; the mode
\* branches take the same direction in every sub-step of every call: the
\* vertical solvers and the pk3 halo fill run in every sub-step or in none
\* (hydrostatic), likewise the fast Rayleigh damping (rf_fast) and the
\* divergence exchange (nord), the interface synchronisation (grid_type)
\* runs in the last sub-step or never, and the damping pass once per call
\* or never.
C30_OptionsSettledAtConstruction ==
    /\ [](/\ Constructed =>
                (~cfg.use_logp /\ cfg.d_ext = 0 /\ cfg.beta = 0)
          /\ err # "NotImplementedError"
          /\ Running => NextOp.k # "raise"
          /\ NextStageIs("c_sw") =>
                /\ \A s \in {"riem_solver_c", "riem_solver3", "pk3_halo"} :
                      count[s] = IF cfg.hydrostatic THEN 0 ELSE NextOp.it
                /\ count["rayleigh_damping"] =
                      IF cfg.rf_fast THEN NextOp.it ELSE 0
                /\ count["interface"] = 0
                /\ count["hyperdiffusion"] = 0
          /\ NextStageIs("d_sw") =>
                (halo["divgd"] = "fresh") = (cfg.nord > 0)
          /\ Returned =>
                /\ \A s \in {"riem_solver_c", "riem_solver3", "pk3_halo"} :
                      count[s] = IF cfg.hydrostatic THEN 0 ELSE cfg.n_split
                /\ count["rayleigh_damping"] =
                      IF cfg.rf_fast THEN cfg.n_split ELSE 0
                /\ count["interface"] =
                      IF cfg.grid_type < GRID_TYPE_INTERFACE_MAX
                      THEN 1 ELSE 0
                /\ count["hyperdiffusion"] = IF do_del2cubed THEN 1 ELSE 0)
    /\ [][/\ cfg' = cfg
          /\ Constructed =>
                /\ do_del2cubed' = do_del2cubed
                /\ nk_heat_dissipation' = nk_heat_dissipation
                /\ created' = created]_vars

\* a nonhydrostatic call of several sub-steps has returned after passing
\* the use_logp check in each of them
C30_Witness ==
    /\ Returned
    /\ ~cfg.hydrostatic
    /\ cfg.n_split = MaxNSplit
    /\ count["pk3_halo"] = MaxNSplit
    /\ count["rayleigh_damping"] = MaxNSplit

(***************************************************************************)
(* SpecZero: zero_data as the call applies it.  The stencil's domain is    *)
(* the full domain, n by n columns numbered from 0; the six fields are     *)
(* drawn nonzero (uniform along the horizontal, one level), n_map is       *)
(* drawn, and the call passes first_timestep = (n_map == 1).               *)
(***************************************************************************)
MaxZeroDomain == 8

MaxZeroValue == 2

ZERO_EDGE == 3

ZeroFields == {"mfxd", "mfyd", "cxd", "cyd", "heat_source", "diss_estd"}

ZeroCells(n) == (0..(n - 1)) \X (0..(n - 1))

\* region[3:-3, 3:-3] of a domain of n by n columns
ZeroRegion(n) ==
    {c \in ZeroCells(n) :
        /\ c[1] >= ZERO_EDGE /\ c[1] < n - ZERO_EDGE
        /\ c[2] >= ZERO_EDGE /\ c[2] < n - ZERO_EDGE}

zero_data_clears_whole_domain(data, n, first_timestep) ==
    [f \in ZeroFields |->
       [c \in ZeroCells(n) |->
          IF f \in {"mfxd", "mfyd", "cxd", "cyd"} THEN 0
          ELSE IF first_timestep THEN 0
          ELSE data[f][c]]]

\* the stencil zero_data over its domain
zero_data(data, n, first_timestep) ==
    [f \in ZeroFields |->
       [c \in ZeroCells(n) |->
          IF f \in {"mfxd", "mfyd", "cxd", "cyd"} THEN 0
          ELSE IF first_timestep /\ c \in ZeroRegion(n) THEN 0
          ELSE data[f][c]]]

ZeroInit ==
    /\ SchedParked
    /\ fvt = None
    /\ CallsParked
    /\ MeshParked
    /\ \E n \in (2 * ZERO_EDGE)..MaxZeroDomain, nmap \in 1..MaxKSplit,
          v \in [ZeroFields -> 1..MaxZeroValue] :
          pf = [ stage |-> "args", n |-> n, n_map |-> nmap,
                 before |-> [f \in ZeroFields |-> [c \in ZeroCells(n) |-> v[f]]],
                 data |-> [f \in ZeroFields |-> [c \in ZeroCells(n) |-> v[f]]] ]

\* self._zero_data(state.mfxd, ..., state.diss_estd, n_map == 1)
ZeroCall ==
    /\ pf.stage = "args"
    /\ pf' = [pf EXCEPT !.stage = "returned",
                        !.data = zero_data(pf.data, pf.n, pf.n_map = 1)]
    /\ UNCHANGED <<schedVars, fvt, tmp_heat_source, seen, mesh>>

ZeroNext == ZeroCall

SpecZero == ZeroInit /\ [][ZeroNext]_vars

\* C31: after the zeroing at the head of a call mfxd, mfyd, cxd and cyd are
\* zero in every column of the full domain; heat_source and diss_estd are
\* zero inside the region that leaves out the outer 3 columns on each side
\* when n_map = 1 and keep their values there otherwise, and keep their
\* values in the outer columns in every case.
C31_ZeroedAtCallStart ==
    pf.stage = "returned" =>
       /\ \A f \in {"mfxd", "mfyd", "cxd", "cyd"}, c \in ZeroCells(pf.n) :
             pf.data[f][c] = 0
       /\ \A f \in {"heat_source", "diss_estd"}, c \in ZeroCells(pf.n) :
             pf.data[f][c] =
                IF /\ pf.n_map = 1
                   /\ c[1] \in ZERO_EDGE..(pf.n - ZERO_EDGE - 1)
                   /\ c[2] \in ZERO_EDGE..(pf.n - ZERO_EDGE - 1)
                THEN 0
                ELSE pf.before[f][c]

\* a first remap step has cleared heat_source inside and left it in the
\* outer columns
C31_Witness ==
    /\ pf.stage = "returned"
    /\ pf.n_map = 1
    /\ pf.n = MaxZeroDomain
    /\ pf.data["heat_source"][<<ZERO_EDGE, ZERO_EDGE>>] = 0
    /\ pf.data["heat_source"][<<0, ZERO_EDGE>>] = MaxZeroValue
    /\ pf.data["mfxd"][<<0, 0>>] = 0

(***************************************************************************)
(* SpecWrap: one operation of a _WrappedHaloUpdater.  The wrapper is one   *)
(* of those that _HaloUpdaters builds; the state it holds is a dataclass   *)
(* instance, a dict, or an object of another kind, each holding the same   *)
(* storage under every field name.  The outcome of an operation is the     *)
(* list of calls that reach the exchange service and the communicator,     *)
(* and the exception raised, if any.                                       *)
(***************************************************************************)
MaxWrapValue == 2

StateKinds == {"dataclass", "dict", "other"}

NoNames == << "None" >>

\* the wrappers of _HaloUpdaters: the names of the x and y quantities in
\* order (NoNames for qty_y_names = None), and whether an updater and a
\* communicator were given
Wrapper(h) ==
    LET W(x, y, updater, comm) ==
          [x |-> x, y |-> y, updater |-> updater, comm |-> comm]
    IN  CASE h = "q_con__cappa" -> W(<<"q_con", "cappa">>, NoNames, TRUE, FALSE)
          [] h = "delp__pt" -> W(<<"delp", "pt">>, NoNames, TRUE, FALSE)
          [] h = "u__v" -> W(<<"u">>, <<"v">>, TRUE, FALSE)
          [] h = "w" -> W(<<"w">>, NoNames, TRUE, FALSE)
          [] h = "gz" -> W(<<"gz">>, NoNames, TRUE, FALSE)
          [] h = "delp__pt__q_con" ->
                W(<<"delp", "pt", "q_con">>, NoNames, TRUE, FALSE)
          [] h = "zh" -> W(<<"zh">>, NoNames, TRUE, FALSE)
          [] h = "divgd" -> W(<<"divgd">>, NoNames, TRUE, FALSE)
          [] h = "heat_source" -> W(<<"heat_source">>, NoNames, TRUE, FALSE)
          [] h = "pkc" -> W(<<"pkc">>, NoNames, TRUE, FALSE)
          [] h = "uc__vc" -> W(<<"uc">>, <<"vc">>, TRUE, FALSE)
          [] h = "interface_uc__vc" -> W(<<"u">>, <<"v">>, FALSE, TRUE)

Outcome(calls, error) == [calls |-> calls, error |-> error]

\* the storages a list of names selects, by attribute or by key
Selected(names, held) == [i \in 1..Len(names) |-> held[names[i]]]

\* _WrappedHaloUpdater.start
WrappedStart(kind, w, held) ==
    IF kind \notin {"dataclass", "dict"}
    THEN Outcome(<< >>, "NotImplementedError")
    ELSE IF ~w.updater
    THEN Outcome(<< >>, "AttributeError")
    ELSE Outcome(<< [call |-> "start", x |-> Selected(w.x, held),
                     y |-> IF w.y = NoNames THEN << >>
                           ELSE Selected(w.y, held)] >>,
                 None)

\* _WrappedHaloUpdater.wait
WrappedWait(kind, w, held) ==
    IF ~w.updater
    THEN Outcome(<< >>, "AttributeError")
    ELSE Outcome(<< [call |-> "wait", x |-> << >>, y |-> << >>] >>, None)

\* _WrappedHaloUpdater.update
WrappedUpdate(kind, w, held) ==
    LET s == WrappedStart(kind, w, held)
        t == WrappedWait(kind, w, held)
    IN  IF s.error # None THEN s
        ELSE Outcome(s.calls \o t.calls, t.error)

\* _WrappedHaloUpdater.interface: the fields are read with
\* self._state.__getattribute__, which a dict does not answer for its keys
WrappedInterface(kind, w, held) ==
    IF w.y = NoNames
    THEN Outcome(<< >>, "TypeError")
    ELSE IF Len(w.x) # 1 \/ Len(w.y) # 1
    THEN Outcome(<< >>, "AssertionError")
    ELSE IF ~w.comm \/ kind = "dict"
    THEN Outcome(<< >>, "AttributeError")
    ELSE Outcome(<< [call |-> "synchronize_vector_interfaces",
                     x |-> Selected(w.x, held),
                     y |-> Selected(w.y, held)] >>,
                 None)

WrappedOp(op, kind, w, held) ==
    CASE op = "start" -> WrappedStart(kind, w, held)
      [] op = "wait" -> WrappedWait(kind, w, held)
      [] op = "update" -> WrappedUpdate(kind, w, held)
      [] op = "interface" -> WrappedInterface(kind, w, held)

WrapInit ==
    /\ SchedParked
    /\ fvt = None
    /\ CallsParked
    /\ MeshParked
    /\ \E h \in Handles \cup {"interface_uc__vc"},
          op \in {"start", "wait", "update", "interface"},
          v \in 1..MaxWrapValue :
          pf = [ stage |-> "args", handle |-> h, op |-> op,
                 held |-> [f \in ExchangedFields |-> [name |-> f, id |-> v]],
                 out |-> [k \in StateKinds |-> Outcome(<< >>, None)] ]

\* the operation on the wrapper, for a state of each kind
WrapCall ==
    /\ pf.stage = "args"
    /\ pf' = [pf EXCEPT
                !.stage = "returned",
                !.out = [k \in StateKinds |->
                           WrappedOp(pf.op, k, Wrapper(pf.handle), pf.held)]]
    /\ UNCHANGED <<schedVars, fvt, tmp_heat_source, seen, mesh>>

WrapNext == WrapCall

SpecWrap == WrapInit /\ [][WrapNext]_vars

\* the operation is one the scheduler issues on this wrapper: start, wait
\* and update on a wrapper that has an updater, interface on the one that
\* has a communicator
WrapIssued ==
    IF pf.op = "interface" THEN Wrapper(pf.handle).comm
    ELSE Wrapper(pf.handle).updater

\* C32: start, update and interface give, for a dict state, the calls they
\* give for a dataclass state holding the same fields, and raise nothing;
\* update is start followed by wait; for a state of another kind start
\* raises NotImplementedError and nothing reaches the exchange service.
C32_WrapperSameForBothStates ==
    (pf.stage = "returned" /\ WrapIssued) =>
       /\ pf.op \in {"start", "update", "interface"} =>
             /\ pf.out["dict"] = pf.out["dataclass"]
             /\ pf.out["dataclass"].error = None
             /\ pf.out["dataclass"].calls # << >>
       /\ pf.op = "update" =>
             \A k \in {"dataclass", "dict"} :
                pf.out[k].calls =
                   WrappedStart(k, Wrapper(pf.handle), pf.held).calls
                   \o WrappedWait(k, Wrapper(pf.handle), pf.held).calls
       /\ pf.op = "start" =>
             pf.out["other"] = Outcome(<< >>, "NotImplementedError")

(***************************************************************************)
(* SpecBound: the registry _LazyComputepathMethod.bound_callables.  The    *)
(* program creates objects, asks for the orchestrated callable of an       *)
(* object's method and drops its references.  An object lives at an        *)
(* address, which is what id() returns; the address of an object that is   *)
(* no longer referenced is free for the next object.  A wrapper refers to  *)
(* the object it binds, and the registry refers to its wrappers.           *)
(***************************************************************************)
MaxObjects == 3

MaxAddresses == 2

Methods == {"__call__", "step_dynamics"}

Addresses == 1..MaxAddresses

\* _LazyComputepathMethod.SDFGEnabledCallable.__init__
SDFGEnabledCallable(func, obj_to_bind) ==
    [obj_to_bind |-> obj_to_bind, func |-> func]

\* bound_callables after __get__, wrapper_made being the wrapper made if the
\* key is missing
bound_callables_replaced(registry, key, wrapper_made) ==
    (key :> wrapper_made) @@ registry

bound_callables_after(registry, key, wrapper_made) ==
    IF key \in DOMAIN registry THEN registry
    ELSE (key :> wrapper_made) @@ registry

\* the objects the registry keeps alive, through obj_to_bind
BoundObjects(p) ==
    {p.wrappers[p.bound_callables[key]].obj_to_bind :
        key \in DOMAIN p.bound_callables}

BoundInit ==
    /\ SchedParked
    /\ fvt = None
    /\ CallsParked
    /\ MeshParked
    /\ pf = [ stage |-> "registry",
              born |-> 0,
              id |-> [o \in 1..MaxObjects |-> 0],
              held |-> {},
              wrappers |-> << >>,
              bound_callables |-> << >>,
              returned |-> {},
              got |-> 0 ]

\* a new object, at a free address
NewObject ==
    /\ pf.stage = "registry"
    /\ pf.born < MaxObjects
    /\ \E a \in Addresses :
          /\ \A o \in 1..pf.born : pf.id[o] # a
          /\ pf' = [pf EXCEPT !.born = @ + 1,
                              !.id[pf.born + 1] = a,
                              !.held = @ \cup {pf.born + 1}]
    /\ UNCHANGED <<schedVars, fvt, tmp_heat_source, seen, mesh>>

\* the program drops its references to an object, which is freed unless a
\* registered wrapper binds it
DropObject(o) ==
    /\ pf.stage = "registry"
    /\ o \in pf.held
    /\ pf' = [pf EXCEPT !.held = @ \ {o},
                        !.id[o] = IF o \in BoundObjects(pf) THEN @ ELSE 0]
    /\ UNCHANGED <<schedVars, fvt, tmp_heat_source, seen, mesh>>

\* _LazyComputepathMethod(func, config).__get__(obj)
LazyGet(o, func) ==
    /\ pf.stage = "registry"
    /\ o \in pf.held
    /\ LET key == <<pf.id[o], func>>
           wrapper_made == Len(pf.wrappers) + 1
           registry == bound_callables_after(pf.bound_callables, key, wrapper_made)
       IN  pf' = [pf EXCEPT
                    !.wrappers =
                       IF key \in DOMAIN pf.bound_callables THEN @
                       ELSE Append(@, SDFGEnabledCallable(func, o)),
                    !.bound_callables = registry,
                    !.got = registry[key],
                    !.returned = @ \cup {[obj |-> o, func |-> func,
                                          wrapper |-> registry[key]]}]
    /\ UNCHANGED <<schedVars, fvt, tmp_heat_source, seen, mesh>>

BoundNext ==
    \/ NewObject
    \/ \E o \in 1..MaxObjects : DropObject(o)
    \/ \E o \in 1..MaxObjects, func \in Methods : LazyGet(o, func)

SpecBound == BoundInit /\ [][BoundNext]_vars

\* C33: over all the requests made so far, the same (object, method) pair
\* got the same wrapper and different pairs got different wrappers, every
\* wrapper returned binds the object and the method it was asked for and is
\* the one registered under the pair; and no step replaces or removes an
\* entry of the registry.
C33_OneWrapperPerPair ==
    /\ [](pf.stage = "registry" =>
            /\ \A r, s \in pf.returned :
                  (r.obj = s.obj /\ r.func = s.func) <=> r.wrapper = s.wrapper
            /\ \A r \in pf.returned :
                  /\ pf.wrappers[r.wrapper] =
                        SDFGEnabledCallable(r.func, r.obj)
                  /\ <<pf.id[r.obj], r.func>> \in DOMAIN pf.bound_callables
                  /\ pf.bound_callables[<<pf.id[r.obj], r.func>>] = r.wrapper)
    /\ [][pf.stage = "registry" =>
            \A key \in DOMAIN pf.bound_callables :
               /\ key \in DOMAIN pf'.bound_callables
               /\ pf'.bound_callables[key] = pf.bound_callables[key]]_vars

\* the same pair was asked for again and another object was served, after
\* an unregistered object had been freed and its address taken again
C33_Witness ==
    /\ pf.stage = "registry"
    /\ \E r \in pf.returned :
          /\ r.wrapper = pf.got
          /\ r.wrapper < Len(pf.wrappers)
    /\ \E r, s \in pf.returned : r.obj # s.obj
    /\ \E o \in 1..pf.born : pf.id[o] = 0
    /\ pf.born > MaxAddresses

(***************************************************************************)
(* SpecOrch: orchestrate() applied to the instances of one class, which    *)
(* defines __call__ and step_dynamics; every instance also holds a plain   *)
(* attribute, config, in its own dictionary.  A class is the original one  *)
(* or a subclass made by orchestrate for one instance (its owner), a       *)
(* function is named by the class that defines it and its name, and a      *)
(* wrapper by the function and the object it binds.                        *)
(***************************************************************************)
MaxPatches == 2

Instances == {"first", "second"}

NoObject == "no object"

OriginalClass == [owner |-> NoObject, depth |-> 0]

ClassMethods == {"__call__", "step_dynamics"}

AttributeNames == ClassMethods \cup {"config", "missing"}

Function(class, name) == [class |-> class, name |-> name]

NoAttribute == SDFGEnabledCallable(Function(OriginalClass, "none"), NoObject)

PlainValue == SDFGEnabledCallable(Function(OriginalClass, "value"), NoObject)

\* the class a patched class was derived from: class _(type(obj))
ParentClass(class) ==
    IF class.depth = 1 THEN OriginalClass ELSE [class EXCEPT !.depth = @ - 1]

\* hasattr(obj, name)
HasAttribute(p, o, name) ==
    name \in ClassMethods \/ p.dict[o][name] # NoAttribute

\* type.__getattribute__(type(obj), name), for a name the class defines
ClassFunction(p, o, name) ==
    IF name = "__call__" THEN Function(p.class[o], name)
    ELSE Function(OriginalClass, name)

\* what a call of obj.name(...), or obj(...) for __call__, runs: a wrapper,
\* or the plain function of the class
Resolved(p, o, name) ==
    IF name = "__call__"
    THEN IF p.class[o].depth = 0
         THEN SDFGEnabledCallable(Function(OriginalClass, name), NoObject)
         ELSE SDFGEnabledCallable(
                 Function(ParentClass(p.class[o]), name), p.class[o].owner)
    ELSE IF p.dict[o][name] # NoAttribute THEN p.dict[o][name]
    ELSE SDFGEnabledCallable(Function(OriginalClass, name), NoObject)

\* obj.__class__ = _ written as type(obj).__call__ = ..., which patches the
\* class of every instance
PatchedClassOfAll(class, o) ==
    [q \in DOMAIN class |-> [owner |-> o, depth |-> class[o].depth + 1]]

\* obj.__class__ = _
PatchedClass(class, o) ==
    [class EXCEPT ![o] = [owner |-> o, depth |-> class[o].depth + 1]]

\* orchestrate(obj, config, method_to_orchestrate, dace_constant_args)
orchestrate(p, o, orchestrated, name, dace_constant_args) ==
    LET call == [obj |-> o, orchestrated |-> orchestrated, name |-> name,
                 dace_constant_args |-> dace_constant_args]
        func == ClassFunction(p, o, name)
        wrapped == SDFGEnabledCallable(func, o)
    IN  IF ~orchestrated
        THEN [p EXCEPT !.call = call, !.error = None]
        ELSE IF ~HasAttribute(p, o, name)
        THEN [p EXCEPT !.call = call, !.error = "RuntimeError"]
        ELSE IF name \notin ClassMethods
        THEN [p EXCEPT !.call = call, !.error = "AttributeError"]
        ELSE [p EXCEPT
                !.call = call,
                !.error = None,
                !.annotations =
                   @ \cup {<<func, a>> : a \in dace_constant_args},
                !.class = IF name = "__call__" THEN PatchedClass(@, o)
                          ELSE @,
                !.dict = IF name = "__call__" THEN @
                         ELSE [@ EXCEPT ![o][name] = wrapped]]

OrchInit ==
    /\ SchedParked
    /\ fvt = None
    /\ CallsParked
    /\ MeshParked
    /\ pf = [ stage |-> "objects",
              class |-> [o \in Instances |-> OriginalClass],
              dict |-> [o \in Instances |->
                          [n \in AttributeNames |->
                             IF n = "config" THEN PlainValue
                             ELSE NoAttribute]],
              annotations |-> {},
              call |-> [obj |-> NoObject, orchestrated |-> FALSE, name |-> "none",
                        dace_constant_args |-> {}],
              error |-> None ]

Orchestrate(o, orchestrated, name, dace_constant_args) ==
    /\ pf.stage = "objects"
    /\ (orchestrated /\ name = "__call__") => pf.class[o].depth < MaxPatches
    /\ pf' = orchestrate(pf, o, orchestrated, name, dace_constant_args)
    /\ UNCHANGED <<schedVars, fvt, tmp_heat_source, seen, mesh>>

OrchNext ==
    \E o \in Instances, orchestrated \in BOOLEAN, name \in AttributeNames,
       dace_constant_args \in {{}, {"state"}} :
       Orchestrate(o, orchestrated, name, dace_constant_args)

SpecOrch == OrchInit /\ [][OrchNext]_vars

OrchSameObjects ==
    /\ pf'.class = pf.class
    /\ pf'.dict = pf.dict
    /\ pf'.annotations = pf.annotations

\* C34: a call of orchestrate with a configuration that is not orchestrated
\* changes no class, attribute or annotation and raises nothing.  With an
\* orchestrated configuration, a name the object has no attribute for
\* raises RuntimeError and changes nothing; an ordinary method of the class
\* becomes, in that instance's dictionary and under that name only, a
\* wrapper bound to the instance, every class staying as it was; __call__
\* leaves every dictionary alone and gives that instance alone a new class
\* of its own, whose __call__ runs a wrapper bound to the instance.  In
\* every case each name of every other instance resolves as before.
C34_OrchestratePatchesOneInstance ==
    [][pf.stage = "objects" =>
        LET c == pf'.call
            done == c.orchestrated /\ pf'.error = None
        IN  /\ ~c.orchestrated => OrchSameObjects /\ pf'.error = None
            /\ (c.orchestrated /\ ~HasAttribute(pf, c.obj, c.name)) =>
                  OrchSameObjects /\ pf'.error = "RuntimeError"
            /\ (c.orchestrated /\ c.name \in ClassMethods) =>
                  pf'.error = None
            /\ (done /\ c.name # "__call__") =>
                  /\ pf'.class = pf.class
                  /\ \A q \in Instances, n \in AttributeNames :
                        (q # c.obj \/ n # c.name) =>
                            pf'.dict[q][n] = pf.dict[q][n]
                  /\ pf'.dict[c.obj][c.name].obj_to_bind = c.obj
                  /\ pf'.dict[c.obj][c.name].func.name = c.name
            /\ (done /\ c.name = "__call__") =>
                  /\ pf'.dict = pf.dict
                  /\ \A q \in Instances \ {c.obj} :
                        pf'.class[q] = pf.class[q]
                  /\ pf'.class[c.obj] # pf.class[c.obj]
                  /\ \A q \in Instances \ {c.obj} :
                        pf'.class[c.obj] # pf'.class[q]
                  /\ Resolved(pf', c.obj, "__call__").obj_to_bind = c.obj
            /\ \A q \in Instances \ {c.obj}, n \in AttributeNames :
                  Resolved(pf', q, n) = Resolved(pf, q, n)]_vars

\* one instance has had __call__ and then step_dynamics orchestrated while
\* another instance of the class is untouched
C34_Witness ==
    /\ pf.stage = "objects"
    /\ pf.call.orchestrated /\ pf.call.name = "step_dynamics"
    /\ pf.error = None
    /\ pf.class[pf.call.obj].depth = 1
    /\ pf.dict[pf.call.obj]["step_dynamics"].obj_to_bind = pf.call.obj
    /\ \E q \in Instances :
          /\ pf.class[q] = OriginalClass
          /\ pf.dict[q]["step_dynamics"] = NoAttribute

(***************************************************************************)
(* SpecBuild: one call of call_sdfg made by every rank.  The ranks that    *)
(* compile, and the compiling rank each other rank takes the build from,   *)
(* are fixed by the decomposition; a rank moves through call_sdfg and      *)
(* build_sdfg one step at a time, the barrier and the messages carrying    *)
(* the build path being the only things ranks share.                       *)
(***************************************************************************)
MaxBuildRanks == 3

BuildRanks == 0..(MaxBuildRanks - 1)

DaCeOrchestration == {"Python", "Build", "BuildAndRun", "Run"}

\* determine_compiling_ranks and the decomposition file: at least one rank
\* compiles, and read_target_rank gives every other rank a compiling one
Decompositions ==
    {d \in [BuildRanks -> [is_compiling : BOOLEAN, source_rank : BuildRanks]] :
        /\ \E r \in BuildRanks : d[r].is_compiling
        /\ \A r \in BuildRanks :
              IF d[r].is_compiling THEN d[r].source_rank = r
              ELSE d[d[r].source_rank].is_compiling}

\* unblock_waiting_tiles: the build path goes to the ranks that take it
\* from this one
unblock_waiting_tiles(p, r) ==
    {[source |-> r, dest |-> q] :
        q \in {q \in BuildRanks :
                 ~p.decomposition[q].is_compiling
                 /\ p.decomposition[q].source_rank = r}}

recv_without_message(p, r) == TRUE

\* comm.recv(source=source_rank) can return
recv(p, r) ==
    [source |-> p.decomposition[r].source_rank, dest |-> r] \in p.sent

BuildInit ==
    /\ SchedParked
    /\ fvt = None
    /\ CallsParked
    /\ MeshParked
    /\ \E mode \in DaCeOrchestration, d \in Decompositions :
          pf = [ stage |-> "build",
                 orchestrate |-> mode,
                 decomposition |-> d,
                 at |-> [r \in BuildRanks |-> "call_sdfg"],
                 compiled |-> [r \in BuildRanks |-> 0],
                 in_barrier |-> {},
                 passed_barrier |-> {},
                 sent |-> {},
                 received |-> {},
                 run |-> [r \in BuildRanks |-> 0],
                 run_before_build |-> {} ]

BuildAt(r, where) == pf.stage = "build" /\ pf.at[r] = where

\* call_sdfg, and build_sdfg up to the compiling branch
CallSdfg(r) ==
    /\ BuildAt(r, "call_sdfg")
    /\ pf' = [pf EXCEPT !.at[r] =
                CASE pf.orchestrate \in {"Build", "BuildAndRun"} ->
                        IF pf.decomposition[r].is_compiling THEN "compile"
                        ELSE "Barrier"
                  [] pf.orchestrate = "Run" -> "run"
                  [] OTHER -> "NotImplementedError"]
    /\ UNCHANGED <<schedVars, fvt, tmp_heat_source, seen, mesh>>

\* the compiling branch of build_sdfg, ending with sdfg.compile()
Compile(r) ==
    /\ BuildAt(r, "compile")
    /\ pf' = [pf EXCEPT !.compiled[r] = @ + 1, !.at[r] = "Barrier"]
    /\ UNCHANGED <<schedVars, fvt, tmp_heat_source, seen, mesh>>

\* MPI.COMM_WORLD.Barrier(): the rank enters
BarrierEnter(r) ==
    /\ BuildAt(r, "Barrier")
    /\ pf' = [pf EXCEPT !.in_barrier = @ \cup {r}, !.at[r] = "in Barrier"]
    /\ UNCHANGED <<schedVars, fvt, tmp_heat_source, seen, mesh>>

\* MPI.COMM_WORLD.Barrier(): every rank has entered, the rank leaves; in
\* Build mode it exits
BarrierLeave(r) ==
    /\ BuildAt(r, "in Barrier")
    /\ pf.in_barrier = BuildRanks
    /\ pf' = [pf EXCEPT
                !.passed_barrier = @ \cup {r},
                !.at[r] = IF pf.orchestrate = "Build" THEN "exit"
                          ELSE IF pf.decomposition[r].is_compiling
                          THEN "unblock_waiting_tiles"
                          ELSE "recv"]
    /\ UNCHANGED <<schedVars, fvt, tmp_heat_source, seen, mesh>>

Unblock(r) ==
    /\ BuildAt(r, "unblock_waiting_tiles")
    /\ pf' = [pf EXCEPT !.sent = @ \cup unblock_waiting_tiles(pf, r),
                        !.at[r] = "run"]
    /\ UNCHANGED <<schedVars, fvt, tmp_heat_source, seen, mesh>>

\* sdfg_path = comm.recv(source=source_rank), then load_precompiled_sdfg
Recv(r) ==
    /\ BuildAt(r, "recv")
    /\ recv(pf, r)
    /\ pf' = [pf EXCEPT
                !.sent = @ \ {[source |-> pf.decomposition[r].source_rank,
                               dest |-> r]},
                !.received =
                   IF [source |-> pf.decomposition[r].source_rank, dest |-> r]
                         \in pf.sent
                   THEN @ \cup {r} ELSE @,
                !.at[r] = "run"]
    /\ UNCHANGED <<schedVars, fvt, tmp_heat_source, seen, mesh>>

\* sdfg(**sdfg_kwargs) or run_sdfg(daceprog, config, args, kwargs)
RunProgram(r) ==
    /\ BuildAt(r, "run")
    /\ pf' = [pf EXCEPT
                !.run[r] = @ + 1,
                !.run_before_build =
                   IF pf.orchestrate = "BuildAndRun"
                      /\ pf.compiled[pf.decomposition[r].source_rank] = 0
                   THEN @ \cup {r} ELSE @,
                !.at[r] = "return"]
    /\ UNCHANGED <<schedVars, fvt, tmp_heat_source, seen, mesh>>

BuildNext ==
    \E r \in BuildRanks :
       \/ CallSdfg(r)
       \/ Compile(r)
       \/ BarrierEnter(r)
       \/ BarrierLeave(r)
       \/ Unblock(r)
       \/ Recv(r)
       \/ RunProgram(r)

SpecBuild == BuildInit /\ [][BuildNext]_vars

\* C35: in BuildAndRun mode no rank runs the program more than once, a rank
\* whose call has returned has run it exactly once, and a run comes after
\* the compilation it uses: a compiling rank has compiled and passed the
\* barrier, another rank has received the build path from its source rank;
\* a build path is sent only by a rank that has compiled; and whenever
\* every rank has entered the call and none can move, all have returned.
\* In Build mode no rank runs, in Run mode no rank compiles, and in any
\* other mode every call ends in NotImplementedError with nothing compiled
\* or run.
C35_RunOnceAfterCompile ==
    pf.stage = "build" =>
       /\ pf.orchestrate = "BuildAndRun" =>
             /\ \A r \in BuildRanks :
                   /\ pf.run[r] <= 1
                   /\ pf.at[r] = "return" <=> pf.run[r] = 1
                   /\ pf.compiled[r] <= 1
                   /\ (pf.run[r] = 1 /\ pf.decomposition[r].is_compiling) =>
                         pf.compiled[r] = 1 /\ r \in pf.passed_barrier
                   /\ (pf.run[r] = 1 /\ ~pf.decomposition[r].is_compiling) =>
                         /\ r \in pf.received
                         /\ pf.compiled[pf.decomposition[r].source_rank] = 1
                   /\ pf.compiled[r] = 1 <=>
                         (pf.decomposition[r].is_compiling
                          /\ pf.at[r] \notin {"call_sdfg", "compile"})
             /\ pf.run_before_build = {}
             /\ \A msg \in pf.sent :
                   /\ pf.compiled[msg.source] = 1
                   /\ msg.source = pf.decomposition[msg.dest].source_rank
             /\ (~ENABLED BuildNext) =>
                   \A r \in BuildRanks : pf.at[r] = "return"
       /\ pf.orchestrate = "Build" =>
             \A r \in BuildRanks : pf.run[r] = 0 /\ pf.at[r] # "return"
       /\ pf.orchestrate = "Run" =>
             \A r \in BuildRanks :
                /\ pf.compiled[r] = 0
                /\ pf.run[r] <= 1
                /\ pf.at[r] = "return" <=> pf.run[r] = 1
       /\ pf.orchestrate \notin {"Build", "BuildAndRun", "Run"} =>
             \A r \in BuildRanks :
                /\ pf.compiled[r] = 0 /\ pf.run[r] = 0
                /\ pf.at[r] \in {"call_sdfg", "NotImplementedError"}

\* a BuildAndRun call in which all ranks have returned, one having
\* compiled and another having run the build it received
C35_Witness ==
    /\ pf.stage = "build"
    /\ pf.orchestrate = "BuildAndRun"
    /\ \A r \in BuildRanks : pf.at[r] = "return" /\ pf.run[r] = 1
    /\ \E r \in BuildRanks : pf.compiled[r] = 1
    /\ pf.received # {}

(***************************************************************************)
(* SpecDriver: Driver.step_all.  Two drivers are built from one            *)
(* configuration, one whose DaCe configuration is orchestrated and one     *)
(* whose is not, and each runs step_all once; times are whole seconds      *)
(* counted from start_time.  What a driver did is kept as the number of    *)
(* dynamics and physics steps, and the numbers of dynamics steps done when *)
(* diagnostics were stored and when restart files were written.            *)
(***************************************************************************)
SECONDS_PER_DAY == 86400

MaxDaySlices == 2

MaxDtSlices == 2

MaxTotalSlices == 3

MaxOutputFrequency == 2

MaxRestartStep == 1

Slice == SECONDS_PER_DAY \div MaxDaySlices

DriverPaths == {"while", "orchestrated"}

\* timedelta.seconds: the seconds within the day, the days left out
TimedeltaSeconds(delta) == delta % SECONDS_PER_DAY

\* what t % time_step_io_freq gives when time_step_io_freq is the tuple
\* (output_frequency,): the TypeError of the interpreter, or the remainder
\* by its one element
TupleModulo == {"TypeError", "elementwise"}

DriverConfigs ==
    [ disable_step_physics : BOOLEAN,
      timestep : {k * Slice : k \in 1..MaxDtSlices},
      total_time : {k * Slice : k \in 0..MaxTotalSlices},
      output_frequency : 1..MaxOutputFrequency,
      intermediate_restart : SUBSET (0..MaxRestartStep),
      save_intermediate_restart : BOOLEAN,
      tuple_modulo : TupleModulo ]

\* Driver.__init__
NewDriver ==
    [ at |-> "step_all", time |-> 0, end_time |-> 0, timestep_counter |-> 0,
      time_steps |-> 0, t |-> 0, dynamics |-> 0, physics |-> 0,
      stored |-> {}, restarts |-> {}, time_run |-> 0, error |-> None ]

\* Driver.step
step(d, config) ==
    [d EXCEPT !.dynamics = @ + 1,
              !.physics = IF config.disable_step_physics THEN @ ELSE @ + 1,
              !.time = @ + config.timestep]

KeepSteppingThroughEnd(time, end_time) == time <= end_time

\* while self.time < end_time
KeepStepping(time, end_time) == time < end_time

DriverInit ==
    /\ SchedParked
    /\ fvt = None
    /\ CallsParked
    /\ MeshParked
    /\ \E config \in DriverConfigs :
          pf = [ stage |-> "driver", config |-> config,
                 driver |-> [path \in DriverPaths |-> NewDriver] ]

DriverAt(path, where) == pf.stage = "driver" /\ pf.driver[path].at = where

DriverStep(path, d) ==
    /\ pf' = [pf EXCEPT !.driver[path] = d]
    /\ UNCHANGED <<schedVars, fvt, tmp_heat_source, seen, mesh>>

\* step_all, not orchestrated: up to the loop
StepAllWhile ==
    /\ DriverAt("while", "step_all")
    /\ DriverStep("while",
          [pf.driver["while"] EXCEPT
              !.end_time = pf.config.total_time,
              !.timestep_counter = 0,
              !.at = "loop"])

\* one turn of the while loop
WhileIteration ==
    /\ DriverAt("while", "loop")
    /\ KeepStepping(pf.driver["while"].time, pf.driver["while"].end_time)
    /\ LET d == step(pf.driver["while"], pf.config)
           counter == d.timestep_counter + 1
       IN  DriverStep("while",
              [d EXCEPT
                 !.timestep_counter = counter,
                 !.stored =
                    IF counter % pf.config.output_frequency = 0
                    THEN @ \cup {d.dynamics} ELSE @,
                 !.restarts =
                    IF pf.config.save_intermediate_restart
                       /\ counter \in pf.config.intermediate_restart
                    THEN @ \cup {d.dynamics} ELSE @])

WhileExit ==
    /\ DriverAt("while", "loop")
    /\ ~KeepStepping(pf.driver["while"].time, pf.driver["while"].end_time)
    /\ DriverStep("while", [pf.driver["while"] EXCEPT !.at = "returned"])

\* step_all, orchestrated: up to the call of dycore_only_loop_orchestrated
StepAllOrchestrated ==
    /\ DriverAt("orchestrated", "step_all")
    /\ LET d == pf.driver["orchestrated"]
           end_time == pf.config.total_time
       IN  DriverStep("orchestrated",
              IF TimedeltaSeconds(pf.config.timestep) = 0
              THEN [d EXCEPT !.end_time = end_time, !.at = "raised",
                             !.error = "ZeroDivisionError"]
              ELSE IF ~pf.config.disable_step_physics
              THEN [d EXCEPT !.end_time = end_time, !.at = "raised",
                             !.error = "RuntimeError"]
              ELSE [d EXCEPT
                      !.end_time = end_time,
                      !.time_steps =
                         TimedeltaSeconds(end_time - d.time)
                            \div TimedeltaSeconds(pf.config.timestep),
                      !.t = 0,
                      !.at = "loop"])

\* one turn of the loop of dycore_only_loop_orchestrated
OrchestratedIteration ==
    /\ DriverAt("orchestrated", "loop")
    /\ pf.driver["orchestrated"].t < pf.driver["orchestrated"].time_steps
    /\ LET d == [pf.driver["orchestrated"] EXCEPT !.dynamics = @ + 1]
       IN  DriverStep("orchestrated",
              IF pf.config.tuple_modulo = "TypeError"
              THEN [d EXCEPT !.at = "raised", !.error = "TypeError"]
              ELSE [d EXCEPT
                      !.time_run =
                         IF d.t % pf.config.output_frequency = 0
                         THEN @ + pf.config.timestep ELSE @,
                      !.stored =
                         IF d.t % pf.config.output_frequency = 0
                         THEN @ \cup {d.dynamics} ELSE @,
                      !.restarts =
                         IF d.t \in pf.config.intermediate_restart
                         THEN @ \cup {d.dynamics} ELSE @,
                      !.t = @ + 1])

OrchestratedExit ==
    /\ DriverAt("orchestrated", "loop")
    /\ pf.driver["orchestrated"].t >= pf.driver["orchestrated"].time_steps
    /\ DriverStep("orchestrated",
          [pf.driver["orchestrated"] EXCEPT !.at = "returned"])

DriverNext ==
    \/ StepAllWhile
    \/ WhileIteration
    \/ WhileExit
    \/ StepAllOrchestrated
    \/ OrchestratedIteration
    \/ OrchestratedExit

SpecDriver == DriverInit /\ [][DriverNext]_vars

Ceil(a, b) == (a + b - 1) \div b

\* C36: in the driver that is not orchestrated every step adds one
\* timestep to the time, the steps never exceed
\* ceil(total_time / timestep), physics has run in every step or in none
\* according to disable_step_physics, and when step_all has returned the
\* steps are exactly ceil(total_time / timestep) and the time has reached
\* end_time.
C36_StepAllStepsToEndTime ==
    pf.stage = "driver" =>
       LET d == pf.driver["while"]
           steps == Ceil(pf.config.total_time, pf.config.timestep)
       IN  /\ d.time = d.dynamics * pf.config.timestep
           /\ d.dynamics <= steps
           /\ d.physics = IF pf.config.disable_step_physics THEN 0
                          ELSE d.dynamics
           /\ d.error = None
           /\ d.at = "returned" =>
                 /\ d.dynamics = steps
                 /\ d.time >= d.end_time

\* a run whose total time is not a whole number of timesteps has returned
\* after more than one step, with physics
C36_Witness ==
    /\ pf.stage = "driver"
    /\ pf.driver["while"].at = "returned"
    /\ pf.driver["while"].dynamics > 1
    /\ pf.driver["while"].physics > 1
    /\ pf.driver["while"].time > pf.driver["while"].end_time

\* C37: once both drivers have finished step_all, with step physics
\* disabled the orchestrated one has returned having done as many dynamics
\* steps as the other, stored diagnostics and written restarts after the
\* same steps and advanced its time as far; with step physics enabled it
\* has raised RuntimeError without a step.
C37_OrchestratedSameAsWhile ==
    (/\ pf.stage = "driver"
     /\ pf.driver["while"].at = "returned"
     /\ pf.driver["orchestrated"].at \in {"returned", "raised"}) =>
       LET w == pf.driver["while"]
           o == pf.driver["orchestrated"]
       IN  IF pf.config.disable_step_physics
           THEN /\ o.at = "returned"
                /\ o.dynamics = w.dynamics
                /\ o.stored = w.stored
                /\ o.restarts = w.restarts
                /\ o.time = w.time
           ELSE /\ o.error = "RuntimeError"
                /\ o.dynamics = 0

(***************************************************************************)
(* SpecCfg: one call of DriverConfig.from_dict.  The dictionary passed     *)
(* holds nx_tile, nz, layout (a list or a tuple) and dt_atmos, and under   *)
(* dycore_config and physics_config a dict, a configuration object, or     *)
(* nothing.  A dict is kept as the set of its keys, an object as the       *)
(* values of the fields that from_dict assigns.                            *)
(***************************************************************************)
MaxNxTile == 2

MaxCfgNz == 2

MaxCfgDt == 2

MaxLayout == 2

NTILES == 6

DerivedNames == {"dt_atmos", "layout", "npx", "npy", "npz", "ntiles"}

ConfigKinds == {"absent", "dict", "object"}

Sequence(type, items) == [type |-> type, items |-> items]

\* tuple(kwargs["layout"])
tuple(s) == Sequence("tuple", s.items)

\* a configuration object as dacite or its own constructor leaves it: none
\* of the derived fields has been given a value
DefaultFields ==
    [ layout |-> Sequence("tuple", <<0, 0>>), dt_atmos |-> 0,
      npx |-> 0, npy |-> 0, npz |-> 0, ntiles |-> 0 ]

ConfigValue(kind, keys) ==
    [kind |-> kind, keys |-> keys, fields |-> DefaultFields]

\* dacite.from_dict(data_class=..., data=kwargs[...]) when the value is a dict
FromMapping(value) ==
    IF value.kind = "dict" THEN ConfigValue("object", {}) ELSE value

DerivedFieldsWithoutStagger(kwargs) ==
    [ layout |-> tuple(kwargs.layout), dt_atmos |-> kwargs.dt_atmos,
      npx |-> kwargs.nx_tile, npy |-> kwargs.nx_tile,
      npz |-> kwargs.nz ]

\* the values from_dict assigns to both configurations
DerivedFields(kwargs) ==
    [ layout |-> tuple(kwargs.layout), dt_atmos |-> kwargs.dt_atmos,
      npx |-> kwargs.nx_tile + 1, npy |-> kwargs.nx_tile + 1,
      npz |-> kwargs.nz ]

\* DriverConfig.from_dict: the dictionary as the call leaves it, the
\* configuration returned and the exception raised
from_dict(kwargs) ==
    LET Raises(k, e) == [kwargs |-> k, returned |-> FALSE, error |-> e]
        with_dycore ==
           [kwargs EXCEPT !.dycore_config = FromMapping(@)]
        with_physics ==
           [with_dycore EXCEPT !.physics_config = FromMapping(@)]
        derived == DerivedFields(with_physics)
        assigned ==
           [with_physics EXCEPT
              !.layout = derived.layout,
              !.dycore_config.fields =
                 [@ EXCEPT !.layout = derived.layout,
                           !.dt_atmos = derived.dt_atmos,
                           !.npx = derived.npx,
                           !.npy = derived.npy,
                           !.npz = derived.npz,
                           !.ntiles = NTILES],
              !.physics_config.fields =
                 [@ EXCEPT !.layout = derived.layout,
                           !.dt_atmos = derived.dt_atmos,
                           !.npx = derived.npx,
                           !.npy = derived.npy,
                           !.npz = derived.npz]]
    IN  IF kwargs.dycore_config.kind = "absent"
        THEN Raises(kwargs, "KeyError")
        ELSE IF /\ kwargs.dycore_config.kind = "dict"
                /\ kwargs.dycore_config.keys \cap DerivedNames # {}
        THEN Raises(kwargs, "ValueError")
        ELSE IF kwargs.physics_config.kind = "absent"
        THEN Raises(with_dycore, "KeyError")
        ELSE [kwargs |-> assigned, returned |-> TRUE, error |-> None]

CfgInit ==
    /\ SchedParked
    /\ fvt = None
    /\ CallsParked
    /\ MeshParked
    /\ \E dycore_kind \in ConfigKinds, physics_kind \in ConfigKinds,
          keys \in SUBSET (DerivedNames \cup {"n_split"}),
          nx_tile \in 1..MaxNxTile, nz \in 1..MaxCfgNz,
          dt_atmos \in 1..MaxCfgDt, layout \in 1..MaxLayout,
          layout_type \in {"list", "tuple"} :
          /\ dycore_kind # "dict" => keys = {}
          /\ pf = [ stage |-> "args",
                    passed |->
                      [ nx_tile |-> nx_tile, nz |-> nz,
                        dt_atmos |-> dt_atmos,
                        layout |-> Sequence(layout_type, <<layout, layout>>),
                        dycore_config |-> ConfigValue(dycore_kind, keys),
                        physics_config |-> ConfigValue(physics_kind, {}) ],
                    kwargs |->
                      [ nx_tile |-> nx_tile, nz |-> nz,
                        dt_atmos |-> dt_atmos,
                        layout |-> Sequence(layout_type, <<layout, layout>>),
                        dycore_config |-> ConfigValue(dycore_kind, keys),
                        physics_config |-> ConfigValue(physics_kind, {}) ],
                    returned |-> FALSE,
                    error |-> None ]

CfgCall ==
    /\ pf.stage = "args"
    /\ LET out == from_dict(pf.kwargs)
       IN  pf' = [pf EXCEPT !.stage = "returned",
                            !.kwargs = out.kwargs,
                            !.returned = out.returned,
                            !.error = out.error]
    /\ UNCHANGED <<schedVars, fvt, tmp_heat_source, seen, mesh>>

CfgNext == CfgCall

SpecCfg == CfgInit /\ [][CfgNext]_vars

SetsDerivedName ==
    /\ pf.passed.dycore_config.kind = "dict"
    /\ pf.passed.dycore_config.keys \cap DerivedNames # {}

\* C38: when the dycore_config mapping holds one of the derived names the
\* call raises ValueError and the dictionary is as it was passed, and
\* ValueError is raised in no other case; when both configurations are
\* present and no derived name is set the call returns; and whenever it
\* returns, dycore_config has npx = npy = nx_tile + 1, npz = nz,
\* ntiles = 6 and the top-level layout, as a tuple, and dt_atmos, and
\* physics_config has the same layout, dt_atmos, npx, npy and npz.
C38_DerivedNamesRejectedOrSet ==
    pf.stage = "returned" =>
       LET dycore == pf.kwargs.dycore_config.fields
           physics == pf.kwargs.physics_config.fields
       IN  /\ SetsDerivedName <=> pf.error = "ValueError"
           /\ pf.error = "ValueError" => pf.kwargs = pf.passed
           /\ (/\ ~SetsDerivedName
               /\ pf.passed.dycore_config.kind # "absent"
               /\ pf.passed.physics_config.kind # "absent") => pf.returned
           /\ pf.returned =>
                 /\ pf.error = None
                 /\ dycore.npx = pf.passed.nx_tile + 1
                 /\ dycore.npy = pf.passed.nx_tile + 1
                 /\ dycore.npz = pf.passed.nz
                 /\ dycore.ntiles = 6
                 /\ dycore.layout =
                       Sequence("tuple", pf.passed.layout.items)
                 /\ dycore.dt_atmos = pf.passed.dt_atmos
                 /\ \A name \in DerivedNames \ {"ntiles"} :
                       physics[name] = dycore[name]

\* a mapping without derived names and a layout given as a list have been
\* turned into a configuration
C38_Witness ==
    /\ pf.stage = "returned"
    /\ pf.returned
    /\ pf.passed.dycore_config.kind = "dict"
    /\ pf.passed.dycore_config.keys = {"n_split"}
    /\ pf.passed.layout.type = "list"
    /\ pf.kwargs.dycore_config.fields.npx = MaxNxTile + 1

====
